---- MODULE Spec2Model ----
(***************************************************************************)
(* CityBites MCP server (src/index.ts): the in-memory TTL cache and the    *)
(* four tool handlers (search-city-food, get-menu-dishes,                  *)
(* build-taste-itinerary, explore-city-food-map).                          *)
(*                                                                         *)
(* Strings are sequences of one-character strings, so that toLowerCase,    *)
(* template concatenation and startsWith are computed, not assumed.        *)
(* JSON / JavaScript values are tagged records of one uniform shape.       *)
(***************************************************************************)
EXTENDS Integers, Sequences, FiniteSets, TLC

VARIABLES now, cache, writes, env, inv, probe

vars == <<now, cache, writes, env, inv, probe>>

----------------------------------------------------------------------------
(* Bounds of the model *)

\* the clock takes the values 0 and k * DefaultTTL - 1, k * DefaultTTL
\* for k in 1..MaxPeriods
MaxPeriods == 1

\* a search returns at most MaxResults results to the context builders
MaxResults == 2

----------------------------------------------------------------------------
(* Strings *)

UpperChars == <<"A","B","C","D","E","F","G","H","I","J","K","L","M",
                "N","O","P","Q","R","S","T","U","V","W","X","Y","Z">>
LowerChars == <<"a","b","c","d","e","f","g","h","i","j","k","l","m",
                "n","o","p","q","r","s","t","u","v","w","x","y","z">>

\* String.prototype.toLowerCase on one character
ToLowerChar(c) ==
    IF \E i \in 1..Len(UpperChars) : UpperChars[i] = c
    THEN LowerChars[CHOOSE i \in 1..Len(UpperChars) : UpperChars[i] = c]
    ELSE c

\* String.prototype.toLowerCase
toLowerCase(s) == [i \in 1..Len(s) |-> ToLowerChar(s[i])]

\* String.prototype.startsWith
startsWith(s, p) == Len(s) >= Len(p) /\ SubSeq(s, 1, Len(p)) = p

DigitChars == <<"0","1","2","3","4","5","6","7","8","9">>

RECURSIVE NumToStr(_)
\* template conversion of a non-negative integer to its decimal digits
NumToStr(n) ==
    IF n < 10 THEN <<DigitChars[n + 1]>>
    ELSE NumToStr(n \div 10) \o <<DigitChars[(n % 10) + 1]>>

RECURSIVE Join(_, _)
\* Array.prototype.join on a sequence of strings
Join(ss, sep) ==
    IF Len(ss) = 0 THEN <<>>
    ELSE IF Len(ss) = 1 THEN ss[1]
    ELSE ss[1] \o sep \o Join(Tail(ss), sep)

----------------------------------------------------------------------------
(* JavaScript / JSON values: [t, s, n, a, o]                                *)
(*   t : "undef" | "null" | "str" | "num" | "arr" | "obj"                   *)
(*   s : characters of a string, n : a number, a : elements of an array,   *)
(*   o : the properties of an object                                       *)

NoProps == [f \in {} |-> 0]

JUndef  == [t |-> "undef", s |-> <<>>, n |-> 0, a |-> <<>>, o |-> NoProps]
JNull   == [t |-> "null",  s |-> <<>>, n |-> 0, a |-> <<>>, o |-> NoProps]
JStr(x) == [t |-> "str",   s |-> x,    n |-> 0, a |-> <<>>, o |-> NoProps]
JNum(x) == [t |-> "num",   s |-> <<>>, n |-> x, a |-> <<>>, o |-> NoProps]
JArr(x) == [t |-> "arr",   s |-> <<>>, n |-> 0, a |-> x,    o |-> NoProps]
JObj(x) == [t |-> "obj",   s |-> <<>>, n |-> 0, a |-> <<>>, o |-> x]

\* null or undefined: the values `??` replaces and property access throws on
Nullish(x) == x.t \in {"undef", "null"}

\* x.f  (the caller has established ~Nullish(x); otherwise a TypeError)
Get(x, f) == IF x.t = "obj" /\ f \in DOMAIN x.o THEN x.o[f] ELSE JUndef

\* a ?? b
Coalesce(a, b) == IF Nullish(a) THEN b ELSE a

\* Array.isArray
IsArray(x) == x.t = "arr"

\* JavaScript truthiness
Truthy(x) ==
    CASE x.t = "undef" -> FALSE
      [] x.t = "null"  -> FALSE
      [] x.t = "str"   -> Len(x.s) > 0
      [] x.t = "num"   -> x.n # 0
      [] OTHER         -> TRUE

\* { ...x, f: v }
WithProp(x, f, v) ==
    JObj([g \in (IF x.t = "obj" THEN DOMAIN x.o ELSE {}) \cup {f} |->
             IF g = f THEN v ELSE x.o[g]])

----------------------------------------------------------------------------
(* The cache: src/index.ts 31-40 *)

\* ttlMs = 10 * 60 * 1000
DefaultTTL == 10 * 60 * 1000

\* getCache with the strict comparison replaced by >=
getCacheInclusive(c, key, t) ==
    IF key \in DOMAIN c /\ c[key].expires >= t THEN c[key].data ELSE JNull

\* getCache(key) evaluated on cache c at Date.now() = t
getCache(c, key, t) ==
    IF key \in DOMAIN c /\ c[key].expires > t THEN c[key].data ELSE JNull

\* setCache that stamps the entry with the current time only
setCacheNoTtl(c, key, data, ttlMs, t) ==
    [k \in DOMAIN c \cup {key} |->
        IF k = key THEN [data |-> data, expires |-> t] ELSE c[k]]

\* setCache that drops the expired entries of the other keys as it writes
setCacheEvicting(c, key, data, ttlMs, t) ==
    [k \in {j \in DOMAIN c : c[j].expires > t} \cup {key} |->
        IF k = key THEN [data |-> data, expires |-> t + ttlMs] ELSE c[k]]

\* setCache that keeps an entry that has not expired: the first write wins
setCacheIfAbsent(c, key, data, ttlMs, t) ==
    IF key \in DOMAIN c /\ c[key].expires > t THEN c
    ELSE [k \in DOMAIN c \cup {key} |->
             IF k = key THEN [data |-> data, expires |-> t + ttlMs] ELSE c[k]]

\* setCache(key, data, ttlMs) evaluated on cache c at Date.now() = t
setCache(c, key, data, ttlMs, t) ==
    [k \in DOMAIN c \cup {key} |->
        IF k = key THEN [data |-> data, expires |-> t + ttlMs] ELSE c[k]]

\* history of the last setCache per key: what was stored, when, with which ttl
RecordWrite(w, key, data, ttlMs, t, who) ==
    [k \in DOMAIN w \cup {key} |->
        IF k = key THEN [data |-> data, at |-> t, ttl |-> ttlMs, by |-> who]
        ELSE w[k]]

----------------------------------------------------------------------------
(* The clock: Date.now() *)

TimePoints ==
    {0} \cup {k * DefaultTTL + j : k \in 1..MaxPeriods, j \in {-1, 0}}

\* time passes, while a handler is still to run or to return
Tick ==
    /\ \E i \in DOMAIN inv : inv[i].pc # "done"
    /\ \E t \in TimePoints : t > now /\ now' = t
    /\ UNCHANGED <<cache, writes, env, inv, probe>>

----------------------------------------------------------------------------
(* Configuration: process.env *)

Credentials == {"TAVILY_API_KEY", "OPENAI_API_KEY", "UNSPLASH_ACCESS_KEY"}

\* the text of a credential's name
CredName(c) ==
    CASE c = "TAVILY_API_KEY" -> <<"T","A","V","I","L","Y","_","A","P","I","_","K","E","Y">>
      [] c = "OPENAI_API_KEY" -> <<"O","P","E","N","A","I","_","A","P","I","_","K","E","Y">>
      [] OTHER -> <<"U","N","S","P","L","A","S","H","_","A","C","C","E","S","S","_","K","E","Y">>

\* `${c} not configured.`
NotConfigured(c) ==
    CredName(c) \o <<" ","n","o","t"," ","c","o","n","f","i","g","u","r","e","d",".">>

----------------------------------------------------------------------------
(* Tool inputs *)

Tokyo   == <<"T","o","k","y","o">>
tokyo   == <<"t","o","k","y","o">>
Lisbon  == <<"L","i","s","b","o","n">>
Ichiran == <<"I","c","h","i","r","a","n">>
ichiran == <<"i","c","h","i","r","a","n">>
Vegan   == <<"V","e","g","a","n">>
vegan   == <<"v","e","g","a","n">>
HttpUrl == <<"h","t","t","p","s",":","/","/","i",".","j","p">>
BareUrl == <<"i",".","j","p">>

Tools == {"search-city-food", "get-menu-dishes",
          "build-taste-itinerary", "explore-city-food-map"}

\* the arguments of one call: optional arguments that are absent are undefined
Args(city, restaurantName, preferences, url, days) ==
    [city |-> city, restaurantName |-> restaurantName,
     preferences |-> preferences, url |-> url, days |-> days]

NoArgs == Args(<<>>, <<>>, JUndef, JUndef, JUndef)

\* the argument tuples the model invokes each tool with
ToolInputs(tool) ==
    CASE tool = "search-city-food" ->
           {Args(c, <<>>, JUndef, JUndef, JUndef) : c \in {Tokyo, tokyo, Lisbon}}
      [] tool = "get-menu-dishes" ->
           {Args(Tokyo, Ichiran, JUndef, JUndef, JUndef),
            Args(tokyo, ichiran, JUndef, JStr(HttpUrl), JUndef),
            Args(Lisbon, Ichiran, JUndef, JStr(BareUrl), JUndef)}
      [] tool = "build-taste-itinerary" ->
           {Args(Tokyo, <<>>, JUndef, JUndef, JUndef),
            Args(Tokyo, <<>>, JStr(Vegan), JUndef, JUndef),
            Args(tokyo, <<>>, JStr(vegan), JUndef, JUndef)}
      [] OTHER ->
           {Args(Tokyo, <<>>, JUndef, JUndef, JUndef),
            Args(Tokyo, <<>>, JStr(Vegan), JUndef, JNum(2)),
            Args(tokyo, <<>>, JStr(vegan), JUndef, JNum(2))}

\* the characters of an optional string argument after `?? ""`
OrEmpty(x) == IF Nullish(x) THEN <<>> ELSE x.s

----------------------------------------------------------------------------
(* Cache keys: src/index.ts 63, 139, 250, 383-384 *)

\* the key with the city used as given
restaurantsKeyRaw(a) ==
    <<"r","e","s","t","a","u","r","a","n","t","s",":">> \o a.city

\* `restaurants:${city.toLowerCase()}`
restaurantsKey(a) ==
    <<"r","e","s","t","a","u","r","a","n","t","s",":">> \o toLowerCase(a.city)

\* a key that tells the url argument apart as well
menuKeyWithUrl(a) ==
    <<"m","e","n","u",":">> \o toLowerCase(a.city) \o <<":">>
        \o toLowerCase(a.restaurantName) \o <<":">> \o OrEmpty(a.url)

\* `menu:${city.toLowerCase()}:${restaurantName.toLowerCase()}`
menuKey(a) ==
    <<"m","e","n","u",":">> \o toLowerCase(a.city) \o <<":">>
        \o toLowerCase(a.restaurantName)

\* `itinerary:${city.toLowerCase()}:${(preferences ?? "").toLowerCase()}`
itineraryKey(a) ==
    <<"i","t","i","n","e","r","a","r","y",":">> \o toLowerCase(a.city) \o <<":">>
        \o toLowerCase(OrEmpty(a.preferences))

\* numDays ?? 1
dayCount(a) == IF Nullish(a.days) THEN 1 ELSE a.days.n

\* `foodmap:${city.toLowerCase()}:${(preferences ?? "").toLowerCase()}:${dayCount}d`
foodmapKey(a) ==
    <<"f","o","o","d","m","a","p",":">> \o toLowerCase(a.city) \o <<":">>
        \o toLowerCase(OrEmpty(a.preferences)) \o <<":">>
        \o NumToStr(dayCount(a)) \o <<"d">>

\* the cacheKey a handler derives
cacheKey(tool, a) ==
    CASE tool = "search-city-food"      -> restaurantsKey(a)
      [] tool = "get-menu-dishes"       -> menuKey(a)
      [] tool = "build-taste-itinerary" -> itineraryKey(a)
      [] OTHER                          -> foodmapKey(a)

----------------------------------------------------------------------------
(* What the external services answer *)

Str1(c) == JStr(<<c>>)

\* restaurants, as the completion may describe them
R1 == JObj([name |-> Str1("A"), url |-> JStr(<<>>)])
R2 == JObj([name |-> Str1("B")])

\* dishes
D1 == JObj([name |-> Str1("A"), imageQuery |-> Str1("p")])
D2 == JObj([name |-> Str1("B"), imageQuery |-> Str1("q")])
D3 == JObj([name |-> Str1("C")])

\* itinerary stops
S1 == JObj([timeSlot |-> Str1("M"), restaurantName |-> Str1("A"), dish |-> Str1("x"),
            lat |-> JNum(35), lng |-> JNum(139), imageQuery |-> Str1("p")])
S2 == JObj([timeSlot |-> Str1("D"), restaurantName |-> Str1("B"), dish |-> Str1("y"),
            imageQuery |-> Str1("q")])
S3 == JObj([timeSlot |-> Str1("L"), restaurantName |-> Str1("C"), dish |-> Str1("z")])

\* map stops
M1 == JObj([name |-> Str1("A"), signatureDish |-> Str1("x"), lat |-> JNum(35),
            lng |-> JNum(139), timeSlot |-> Str1("M"), imageQuery |-> Str1("p")])
M2 == JObj([name |-> Str1("B"), signatureDish |-> Str1("y"), imageQuery |-> Str1("q")])
M3 == JObj([name |-> Str1("C"), signatureDish |-> Str1("z")])

Day(n, l, st) == JObj([day |-> JNum(n), label |-> Str1(l), stops |-> st])

\* the JSON documents a completion's content may parse to
Documents(tool) ==
    CASE tool = "search-city-food" ->
           {JObj([restaurants |-> JArr(<<R1, R2>>)]),
            JArr(<<R1>>),
            JObj([restaurants |-> Str1("x")]),
            JObj([restaurants |-> JArr(<<JNull>>)]),
            JObj(NoProps),
            JNull}
      [] tool = "get-menu-dishes" ->
           {JObj([dishes |-> JArr(<<D1, D2>>)]),
            JObj([dishes |-> JArr(<<D3>>)]),
            JObj([dishes |-> Str1("x")]),
            JObj([dishes |-> JArr(<<JNull>>)]),
            JObj(NoProps),
            JNull}
      [] tool = "build-taste-itinerary" ->
           {JObj([centerLat |-> JNum(35), centerLng |-> JNum(139),
                  stops |-> JArr(<<S1, S2>>)]),
            JObj([stops |-> JArr(<<S3>>)]),
            JObj([stops |-> Str1("x")]),
            JObj([stops |-> JArr(<<S1, JNull>>)]),
            JObj(NoProps),
            JNull}
      [] OTHER ->
           {JObj([centerLat |-> JNum(35), centerLng |-> JNum(139),
                  days |-> JArr(<<Day(1, "a", JArr(<<M1, M2>>)),
                                  Day(2, "b", JArr(<<M1>>))>>)]),
            JObj([days |-> JArr(<<JObj([day |-> JNum(1)]),
                                  Day(2, "b", JArr(<<M3>>))>>)]),
            JObj([days |-> JArr(<<Day(1, "a", Str1("x"))>>)]),
            JObj([days |-> JArr(<<Day(1, "a", JArr(<<M1>>)), JNull>>)]),
            JObj([days |-> JStr(<<"x","y">>)]),
            JObj([days |-> JNum(5)]),
            JObj(NoProps),
            JNull}

\* the outcome of chat.completions.create followed by JSON.parse of its content:
\* the call rejects, the content is not JSON, or the content parses to a document
CompletionOutcomes(tool) ==
    {[kind |-> "reject", doc |-> JUndef], [kind |-> "garbage", doc |-> JUndef]}
        \cup {[kind |-> "json", doc |-> d] : d \in Documents(tool)}

\* the outcome of a search: it rejects or it returns results
SearchOutcomes == {"reject", "ok"}

\* the outcome of the page fetch: it rejects (network, timeout) or it resolves with
\* a response of some status
FetchOutcomes == {"reject", "ok200", "ok404"}

\* the outcome of res.text() on that response: the body fails to arrive, or the text
TextOutcomes == {"reject", "ok"}

\* the outcome of the fetch of an image lookup: it rejects or a response arrives
ImageFetchOutcomes == {"reject", "response"}

ImgA == <<"u","1">>

Photos(u) == JObj([results |-> JArr(<<JObj([urls |-> JObj([small |-> JStr(u)])])>>)])

\* the outcome of imgRes.json() of an image lookup: it rejects, or a JSON body
\* (a lookup whose fetch rejected has the first outcome as well)
ImageOutcomes ==
    {[kind |-> "reject", body |-> JUndef],
     [kind |-> "json", body |-> Photos(ImgA)]}

\* x?.f
OptGet(x, f) == IF Nullish(x) THEN JUndef ELSE Get(x, f)

\* x?.[0]
OptFirst(x) ==
    IF Nullish(x) THEN JUndef
    ELSE IF x.t = "arr" /\ Len(x.a) > 0 THEN x.a[1] ELSE JUndef

\* an image URL left undefined when the lookup throws
ImageUrlOfLoose(outcome) ==
    IF outcome.kind = "reject" \/ Nullish(outcome.body) THEN JUndef
    ELSE Coalesce(OptGet(OptGet(OptFirst(Get(outcome.body, "results")), "urls"), "small"),
                  JStr(<<>>))

\* the image URL a lookup contributes: imgData.results?.[0]?.urls?.small ?? "",
\* and "" when the lookup throws (src/index.ts 200-209, 317-326, 460-469)
ImageUrlOf(outcome) ==
    IF outcome.kind = "reject" \/ Nullish(outcome.body) THEN JStr(<<>>)
    ELSE Coalesce(OptGet(OptGet(OptFirst(Get(outcome.body, "results")), "urls"), "small"),
                  JStr(<<>>))

----------------------------------------------------------------------------
(* Results of a handler *)

\* `${x}` in a template literal
TemplStr(x) ==
    CASE x.t = "str"   -> x.s
      [] x.t = "num"   -> NumToStr(x.n)
      [] x.t = "undef" -> <<"u","n","d","e","f","i","n","e","d">>
      [] x.t = "null"  -> <<"n","u","l","l">>
      [] OTHER         -> <<"[","o","b","j","e","c","t","]">>

\* the text Array.prototype.join gives one element
JoinStr(x) == IF Nullish(x) THEN <<>> ELSE TemplStr(x)

NoResult == [kind |-> "none", props |-> JUndef, text |-> <<>>]

\* error(message)
ErrorResult(message) == [kind |-> "error", props |-> JUndef, text |-> message]

\* widget({ props, output: text(summary) })
WidgetResult(props, summary) == [kind |-> "widget", props |-> props, text |-> summary]

\* an exception leaves the handler
Thrown == [kind |-> "throw", props |-> JUndef, text |-> <<>>]

\* err.message of what the handler's catch block receives
ErrMessage(cause) ==
    CASE cause = "network" -> <<"n","e","t">>
      [] cause = "syntax"  -> <<"j","s","o","n">>
      [] OTHER             -> <<"t","y","p","e">>

\* the message of the handler's catch block (src/index.ts 106, 217, 347, 494)
FailText(tool, a, cause) ==
    (CASE tool = "search-city-food" ->
            <<"F","a","i","l","e","d"," ","t","o"," ","s","e","a","r","c","h"," ","f","o","r"," ","r","e","s","t","a","u","r","a","n","t","s"," ","i","n"," ">> \o a.city
       [] tool = "get-menu-dishes" ->
            <<"F","a","i","l","e","d"," ","t","o"," ","g","e","t"," ","m","e","n","u"," ","f","o","r"," ">> \o a.restaurantName
       [] tool = "build-taste-itinerary" ->
            <<"F","a","i","l","e","d"," ","t","o"," ","b","u","i","l","d"," ","i","t","i","n","e","r","a","r","y"," ","f","o","r"," ">> \o a.city
       [] OTHER ->
            <<"F","a","i","l","e","d"," ","t","o"," ","b","u","i","l","d"," ","f","o","o","d"," ","m","a","p"," ","f","o","r"," ">> \o a.city)
    \o <<":"," ">> \o ErrMessage(cause)

\* the elements of an array value, as a set of indices
Idx(x) == 1..Len(x.a)

\* search-city-food: response assembly (src/index.ts 110-113)
Finish1(a, p) ==
    LET restaurants == Get(p, "restaurants") IN
    IF \E k \in Idx(restaurants) : Nullish(restaurants.a[k]) THEN Thrown
    ELSE WidgetResult(
            JObj([city |-> JStr(a.city), restaurants |-> restaurants]),
            <<"F","o","u","n","d"," ">> \o NumToStr(Len(restaurants.a))
              \o <<" ","l","o","c","a","l"," ","f","o","o","d"," ","s","p","o","t","s"," ","i","n"," ">> \o a.city \o <<":"," ">>
              \o Join([k \in Idx(restaurants) |-> JoinStr(Get(restaurants.a[k], "name"))],
                      <<","," ">>))

\* get-menu-dishes: response assembly (src/index.ts 221-224)
Finish2(a, p) ==
    LET dishes == Get(p, "dishes") IN
    IF ~IsArray(dishes) \/ \E k \in Idx(dishes) : Nullish(dishes.a[k]) THEN Thrown
    ELSE WidgetResult(
            JObj([restaurantName |-> JStr(a.restaurantName), city |-> JStr(a.city),
                  dishes |-> dishes]),
            a.restaurantName \o <<" ","s","e","r","v","e","s",":"," ">>
              \o Join([k \in Idx(dishes) |-> JoinStr(Get(dishes.a[k], "name"))],
                      <<","," ">>))

\* build-taste-itinerary: response assembly (src/index.ts 351-354)
Finish3(a, p) ==
    LET stops == Get(p, "stops") IN
    WidgetResult(
        JObj([city |-> JStr(a.city), preferences |-> JStr(OrEmpty(a.preferences)),
              stops |-> stops, centerLat |-> Get(p, "centerLat"),
              centerLng |-> Get(p, "centerLng")]),
        <<"T","a","s","t","e"," ","i","t","i","n","e","r","a","r","y"," ","f","o","r"," ">> \o a.city \o <<":"," ">>
          \o Join([k \in Idx(stops) |->
                     TemplStr(Get(stops.a[k], "timeSlot")) \o <<" ","→"," ">>
                       \o TemplStr(Get(stops.a[k], "restaurantName")) \o <<" ","(">>
                       \o TemplStr(Get(stops.a[k], "dish")) \o <<")">>],
                  <<" ","|"," ">>))

\* explore-city-food-map: response assembly (src/index.ts 498-503)
Finish4(a, p) ==
    LET stops == Get(p, "stops")
        days  == Get(p, "days") IN
    WidgetResult(
        JObj([city |-> JStr(a.city), centerLat |-> Get(p, "centerLat"),
              centerLng |-> Get(p, "centerLng"), stops |-> stops, days |-> days]),
        <<"F","o","o","d"," ","m","a","p"," ","f","o","r"," ">> \o a.city \o <<" ","(">>
          \o NumToStr(Len(days.a)) \o <<" ","d","a","y">>
          \o (IF Len(days.a) > 1 THEN <<"s">> ELSE <<>>)
          \o <<")"," ","w","i","t","h"," ">> \o NumToStr(Len(stops.a)) \o <<" ","s","t","o","p","s",":"," ">>
          \o Join([k \in Idx(stops) |->
                     NumToStr(k) \o <<"."," ">> \o TemplStr(Get(stops.a[k], "name"))
                       \o <<" ","(">> \o TemplStr(Get(stops.a[k], "signatureDish"))
                       \o <<")">>],
                  <<","," ">>))

\* the result a handler returns for a payload, computed or cached
Finish(tool, a, p) ==
    CASE tool = "search-city-food"      -> Finish1(a, p)
      [] tool = "get-menu-dishes"       -> Finish2(a, p)
      [] tool = "build-taste-itinerary" -> Finish3(a, p)
      [] OTHER                          -> Finish4(a, p)

----------------------------------------------------------------------------
(* One invocation of a tool handler *)

\* the invocations of one behaviour: two, so that one may follow or overlap the other
Slots == {1, 2}

ZeroCalls == [search |-> 0, fetch |-> 0, completion |-> 0, image |-> 0]

NoObs == [fetch |-> "none", rejected |-> 0, answered |-> 0, completion |-> "none",
          ctx |-> "none"]

\* pc: "idle", then "fetch" / "text" / "search" / "completion" / "images" while the handler
\* awaits that call, then "done"; "fail" and "write" are the two ways its try block
\* ends (caught exception, setCache).
\* The remaining fields record what happened, for the properties below:
\*   cfg     process.env when the handler was entered
\*   after   the invocations that had returned when this one was entered
\*   seen    the last setCache on the derived key before entry: who called it
\*           (0: nobody) and how long before
\*   doc     the document the completion's content parsed to
\*   lookups per extracted record, in order, what its image lookup answered
\*   calls   the external calls issued;  hit, wrote: getCache hit, setCache called
\*   obs     what the context calls and the completion answered: the page fetch's
\*           outcome, how many searches rejected and resolved, the completion's
\*           outcome, and the context the completion was issued with
IdleInv ==
    [pc |-> "idle", tool |-> "", args |-> NoArgs, key |-> <<>>,
     waiting |-> {}, res |-> "none", menuContext |-> "", parsed |-> JUndef,
     raw |-> <<>>, got |-> <<>>, dayIdx |-> 0, days |-> <<>>, stops |-> <<>>,
     payload |-> JUndef, cause |-> "", hit |-> FALSE, wrote |-> FALSE,
     cfg |-> {}, after |-> {}, seen |-> [by |-> 0, age |-> 0], doc |-> JUndef,
     lookups |-> <<>>, calls |-> ZeroCalls, obs |-> NoObs, result |-> NoResult]

\* the handler has returned: its locals are gone
Done(r, res) ==
    [r EXCEPT !.pc = "done", !.result = res, !.waiting = {}, !.res = "none",
              !.menuContext = "",
              !.parsed = JUndef, !.raw = <<>>, !.got = <<>>, !.dayIdx = 0,
              !.days = <<>>, !.stops = <<>>, !.payload = JUndef]

\* an exception swallowed: the handler caches and returns an empty payload
FailSoft(r, cause) == [r EXCEPT !.pc = "write", !.payload = JObj(NoProps), !.cause = cause]

\* a catch block that issues the completion call once more before it gives up
FailRetry(r, cause) ==
    IF r.pc = "completion" /\ r.calls.completion < 2
    THEN [r EXCEPT !.calls.completion = @ + 1]
    ELSE [r EXCEPT !.pc = "fail", !.cause = cause]

\* an exception reaches the catch block of the handler
Fail(r, cause) == [r EXCEPT !.pc = "fail", !.cause = cause]

\* a setCache under one key shared by every call
WriteSharedKey(r, p) == [r EXCEPT !.pc = "write", !.payload = p, !.key = <<"k">>]

\* the try block reaches setCache with this payload
Write(r, p) == [r EXCEPT !.pc = "write", !.payload = p]

\* the credentials a handler checks, in the order it checks them
\* (src/index.ts 60-61, 137, 247-248, 380-381)
CredChecks(tool) ==
    CASE tool = "search-city-food"      -> <<"TAVILY_API_KEY", "OPENAI_API_KEY">>
      [] tool = "get-menu-dishes"       -> <<"OPENAI_API_KEY">>
      [] tool = "build-taste-itinerary" -> <<"OPENAI_API_KEY", "TAVILY_API_KEY">>
      [] OTHER                          -> <<"TAVILY_API_KEY", "OPENAI_API_KEY">>

\* the positions of CredChecks(tool) whose credential is not in e
MissingAt(tool, e) == {k \in 1..Len(CredChecks(tool)) : CredChecks(tool)[k] \notin e}

\* the first check that fails
FirstMissing(tool, e) ==
    CredChecks(tool)[CHOOSE k \in MissingAt(tool, e) : \A j \in MissingAt(tool, e) : k <= j]

\* chat.completions.create is issued
IssueCompletion(r) ==
    [r EXCEPT !.pc = "completion", !.calls.completion = @ + 1,
              !.obs.ctx = r.menuContext]

\* get-menu-dishes going on to the completion without ever searching
AfterContextNoSearch(r, e) == IssueCompletion(r)

\* get-menu-dishes after the page fetch: search only without page text and with
\* the search credential (src/index.ts 169-176)
AfterContext(r, e) ==
    IF r.menuContext = "" /\ "TAVILY_API_KEY" \in e
    THEN [r EXCEPT !.pc = "search", !.waiting = {1}, !.calls.search = @ + 1]
    ELSE IssueCompletion(r)

\* a first call in which build-taste-itinerary issues one search and awaits it alone
FirstCallOneSearch(r, e) ==
    CASE r.tool = "get-menu-dishes" ->
           IF Truthy(r.args.url) /\ startsWith(r.args.url.s, <<"h","t","t","p">>)
           THEN [r EXCEPT !.pc = "fetch", !.calls.fetch = @ + 1]
           ELSE AfterContext(r, e)
      [] OTHER ->
           [r EXCEPT !.pc = "search", !.waiting = {1}, !.calls.search = @ + 1]

\* the first external call of a handler that missed the cache
FirstCall(r, e) ==
    CASE r.tool = "get-menu-dishes" ->
           IF Truthy(r.args.url) /\ startsWith(r.args.url.s, <<"h","t","t","p">>)
           THEN [r EXCEPT !.pc = "fetch", !.calls.fetch = @ + 1]
           ELSE AfterContext(r, e)
      [] r.tool = "build-taste-itinerary" ->
           [r EXCEPT !.pc = "search", !.waiting = {1, 2}, !.calls.search = @ + 2]
      [] OTHER ->
           [r EXCEPT !.pc = "search", !.waiting = {1}, !.calls.search = @ + 1]

\* a handler entry that never consults the cache
BeginNoCache(tool, a, c, e, t) ==
    LET r0 == [IdleInv EXCEPT !.tool = tool, !.args = a, !.key = cacheKey(tool, a),
                              !.cfg = e]
    IN  IF MissingAt(tool, e) # {}
        THEN Done(r0, ErrorResult(NotConfigured(FirstMissing(tool, e))))
        ELSE FirstCall(r0, e)

\* a handler entry that consults the cache before it checks the credentials
BeginCacheFirst(tool, a, c, e, t) ==
    LET r0 == [IdleInv EXCEPT !.tool = tool, !.args = a, !.key = cacheKey(tool, a),
                              !.cfg = e]
        cached == getCache(c, r0.key, t)
    IN  IF Truthy(cached)
        THEN Done([r0 EXCEPT !.hit = TRUE], Finish(tool, a, cached))
        ELSE IF MissingAt(tool, e) # {}
        THEN Done(r0, ErrorResult(NotConfigured(FirstMissing(tool, e))))
        ELSE FirstCall(r0, e)

\* a handler entry that refuses to run beside an invocation in flight on its key
BeginSingleFlight(tool, a, c, e, t) ==
    LET r0 == [IdleInv EXCEPT !.tool = tool, !.args = a, !.key = cacheKey(tool, a),
                              !.cfg = e]
        cached == getCache(c, r0.key, t)
    IN  IF MissingAt(tool, e) # {}
        THEN Done(r0, ErrorResult(NotConfigured(FirstMissing(tool, e))))
        ELSE IF Truthy(cached)
        THEN Done([r0 EXCEPT !.hit = TRUE], Finish(tool, a, cached))
        ELSE IF \E j \in Slots : inv[j].pc \notin {"idle", "done"} /\ inv[j].key = r0.key
        THEN Done(r0, ErrorResult(<<"b","u","s","y">>))
        ELSE FirstCall(r0, e)

\* a handler entry that stores the payload again when it hits
BeginRefreshOnHit(tool, a, c, e, t) ==
    LET r0 == [IdleInv EXCEPT !.tool = tool, !.args = a, !.key = cacheKey(tool, a),
                              !.cfg = e]
        cached == getCache(c, r0.key, t)
    IN  IF MissingAt(tool, e) # {}
        THEN Done(r0, ErrorResult(NotConfigured(FirstMissing(tool, e))))
        ELSE IF Truthy(cached)
        THEN Write([r0 EXCEPT !.hit = TRUE], cached)
        ELSE FirstCall(r0, e)

\* a handler that takes a cached payload holding no record for a miss
BeginRetryDegraded(tool, a, c, e, t) ==
    LET r0 == [IdleInv EXCEPT !.tool = tool, !.args = a, !.key = cacheKey(tool, a),
                              !.cfg = e]
        cached == getCache(c, r0.key, t)
    IN  IF MissingAt(tool, e) # {}
        THEN Done(r0, ErrorResult(NotConfigured(FirstMissing(tool, e))))
        ELSE IF Truthy(cached) /\ \E f \in DOMAIN cached.o : Len(cached.o[f].a) > 0
        THEN Done([r0 EXCEPT !.hit = TRUE], Finish(tool, a, cached))
        ELSE FirstCall(r0, e)

\* the handler from its entry to its first await or its return
Begin(tool, a, c, e, t) ==
    LET r0 == [IdleInv EXCEPT !.tool = tool, !.args = a, !.key = cacheKey(tool, a),
                              !.cfg = e]
        cached == getCache(c, r0.key, t)
    IN  IF MissingAt(tool, e) # {}
        THEN Done(r0, ErrorResult(NotConfigured(FirstMissing(tool, e))))
        ELSE IF Truthy(cached)
        THEN Done([r0 EXCEPT !.hit = TRUE], Finish(tool, a, cached))
        ELSE FirstCall(r0, e)

----------------------------------------------------------------------------
(* Extraction and image enrichment *)

\* one record's image lookup: not issued, pending (fetch awaited), received (the
\* response is there, json() awaited), rejected or answered
NoLookup == [issued |-> FALSE, outcome |-> "none", body |-> JUndef, url |-> JStr(<<>>)]
Pending  == [issued |-> TRUE, outcome |-> "pending", body |-> JUndef, url |-> JStr(<<>>)]
Received == [issued |-> TRUE, outcome |-> "received", body |-> JUndef, url |-> JStr(<<>>)]
Answered(o) ==
    [issued |-> TRUE, outcome |-> o.kind, body |-> o.body, url |-> ImageUrlOf(o)]

\* the ItineraryStop built from an extracted stop (src/index.ts 328-340)
itineraryStop(stop, url) ==
    JObj([timeSlot |-> Get(stop, "timeSlot"), timeRange |-> Get(stop, "timeRange"),
          restaurantName |-> Get(stop, "restaurantName"),
          neighborhood |-> Get(stop, "neighborhood"), dish |-> Get(stop, "dish"),
          dishDescription |-> Get(stop, "dishDescription"),
          culturalContext |-> Get(stop, "culturalContext"),
          walkingNote |-> Get(stop, "walkingNote"),
          lat |-> Coalesce(Get(stop, "lat"), JNum(0)),
          lng |-> Coalesce(Get(stop, "lng"), JNum(0)),
          dishImageUrl |-> url])

\* the MapStop built from an extracted stop (src/index.ts 471-483)
mapStop(stop, url) ==
    JObj([name |-> Get(stop, "name"), neighborhood |-> Get(stop, "neighborhood"),
          cuisineType |-> Get(stop, "cuisineType"),
          lat |-> Get(stop, "lat"), lng |-> Get(stop, "lng"),
          signatureDish |-> Get(stop, "signatureDish"),
          dishDescription |-> Get(stop, "dishDescription"),
          dishImageUrl |-> url,
          whyLocal |-> Coalesce(Get(stop, "whyLocal"), JStr(<<>>)),
          timeSlot |-> Coalesce(Get(stop, "timeSlot"), JStr(<<>>)),
          timeRange |-> Coalesce(Get(stop, "timeRange"), JStr(<<>>))])

\* a batch that issues the lookup of its first record only
IssuedFirstOnly(tool, raw, e) ==
    IF tool = "get-menu-dishes"
    THEN {k \in 1..Len(raw) : ~Nullish(raw[k]) /\ k = 1}
    ELSE {k \in 1..Len(raw) : /\ ~Nullish(raw[k]) /\ k = 1
                              /\ "UNSPLASH_ACCESS_KEY" \in e
                              /\ Truthy(Get(raw[k], "imageQuery"))}

\* the records of a batch whose callback issues an image fetch before its first await:
\* get-menu-dishes fetches for every dish it can read imageQuery of (199-204),
\* the other two only with the credential and a truthy imageQuery (316, 459)
Issued(tool, raw, e) ==
    IF tool = "get-menu-dishes"
    THEN {k \in 1..Len(raw) : ~Nullish(raw[k])}
    ELSE {k \in 1..Len(raw) : /\ ~Nullish(raw[k])
                              /\ "UNSPLASH_ACCESS_KEY" \in e
                              /\ Truthy(Get(raw[k], "imageQuery"))}

\* a callback of the batch throws outside any try: reading a property of a
\* null stop (316 / 329, 459 / 472); get-menu-dishes reads inside its try
Rejects(tool, raw) ==
    tool # "get-menu-dishes" /\ \E k \in 1..Len(raw) : Nullish(raw[k])

\* the values a for-of loop visits
Iter(x) ==
    IF x.t = "arr" THEN x.a ELSE [k \in 1..Len(x.s) |-> JStr(<<x.s[k]>>)]

\* parsed.centerLat ?? 0 and parsed.centerLng ?? 0
center(parsed, f) == Coalesce(Get(parsed, f), JNum(0))

\* parsed.days ?? []
rawDaysOf(parsed) == Coalesce(Get(parsed, "days"), JArr(<<>>))

RECURSIVE RunDays(_, _, _)

\* the end of a batch that puts a day's stops in front of the flat list
EndBatchPrepend(r, e) ==
    LET n  == Len(r.raw)
        r1 == [r EXCEPT !.lookups = @ \o r.got]
    IN  CASE r.tool = "get-menu-dishes" ->
               Write(r1, JObj([dishes |->
                   JArr([k \in 1..n |-> WithProp(r.raw[k], "imageUrl", r.got[k].url)])]))
          [] r.tool = "build-taste-itinerary" ->
               Write(r1, JObj([stops |->
                                 JArr([k \in 1..n |-> itineraryStop(r.raw[k], r.got[k].url)]),
                               centerLat |-> center(r.parsed, "centerLat"),
                               centerLng |-> center(r.parsed, "centerLng")]))
          [] OTHER ->
               LET rawDay   == Iter(rawDaysOf(r.parsed))[r.dayIdx]
                   dayStops == [k \in 1..n |-> mapStop(r.raw[k], r.got[k].url)]
               IN  RunDays([r1 EXCEPT
                              !.days = Append(@, JObj([day |-> Get(rawDay, "day"),
                                                       label |-> Get(rawDay, "label"),
                                                       stops |-> JArr(dayStops)])),
                              !.stops = dayStops \o @],
                           r.dayIdx + 1, e)

\* Promise.all of a batch has resolved: build the records and go on
EndBatch(r, e) ==
    LET n  == Len(r.raw)
        r1 == [r EXCEPT !.lookups = @ \o r.got]
    IN  CASE r.tool = "get-menu-dishes" ->
               Write(r1, JObj([dishes |->
                   JArr([k \in 1..n |-> WithProp(r.raw[k], "imageUrl", r.got[k].url)])]))
          [] r.tool = "build-taste-itinerary" ->
               Write(r1, JObj([stops |->
                                 JArr([k \in 1..n |-> itineraryStop(r.raw[k], r.got[k].url)]),
                               centerLat |-> center(r.parsed, "centerLat"),
                               centerLng |-> center(r.parsed, "centerLng")]))
          [] OTHER ->
               LET rawDay   == Iter(rawDaysOf(r.parsed))[r.dayIdx]
                   dayStops == [k \in 1..n |-> mapStop(r.raw[k], r.got[k].url)]
               IN  RunDays([r1 EXCEPT
                              !.days = Append(@, JObj([day |-> Get(rawDay, "day"),
                                                       label |-> Get(rawDay, "label"),
                                                       stops |-> JArr(dayStops)])),
                              !.stops = @ \o dayStops],
                           r.dayIdx + 1, e)

\* a batch whose lookups are issued and not awaited
StartBatchNoJoin(r, raw, e) ==
    LET issued == Issued(r.tool, raw, e)
        r1 == [r EXCEPT !.raw = raw,
                        !.got = [k \in 1..Len(raw) |->
                                    IF k \in issued THEN Pending ELSE NoLookup],
                        !.waiting = issued,
                        !.calls.image = @ + Cardinality(issued)]
    IN  IF Rejects(r.tool, raw) THEN Fail(r1, "type") ELSE EndBatch(r1, e)

\* the callbacks of records.map(async ...) run up to their first await
StartBatch(r, raw, e) ==
    LET issued == Issued(r.tool, raw, e)
        r1 == [r EXCEPT !.raw = raw,
                        !.got = [k \in 1..Len(raw) |->
                                    IF k \in issued THEN Pending ELSE NoLookup],
                        !.waiting = issued,
                        !.calls.image = @ + Cardinality(issued)]
    IN  IF Rejects(r.tool, raw) THEN Fail(r1, "type")
        ELSE IF issued = {} THEN EndBatch(r1, e)
        ELSE [r1 EXCEPT !.pc = "images"]

\* explore-city-food-map: the loop over rawDays from day d on (src/index.ts 455-491)
RunDays(r, d, e) ==
    LET els == Iter(rawDaysOf(r.parsed)) IN
    IF d > Len(els)
    THEN Write(r, JObj([stops |-> JArr(r.stops), days |-> JArr(r.days),
                        centerLat |-> center(r.parsed, "centerLat"),
                        centerLng |-> center(r.parsed, "centerLng")]))
    ELSE IF Nullish(els[d]) THEN Fail(r, "type")
    ELSE LET st == Coalesce(Get(els[d], "stops"), JArr(<<>>)) IN
         IF ~IsArray(st) THEN Fail(r, "type")
         ELSE StartBatch([r EXCEPT !.dayIdx = d], st.a, e)

\* search-city-food without the Array.isArray test
restaurantsUnchecked(parsed) == Coalesce(Get(parsed, "restaurants"), parsed)

\* search-city-food: (parsed.restaurants ?? parsed), replaced by [] unless an array
\* (src/index.ts 101-102)
restaurantsOf(parsed) ==
    LET restaurants == Coalesce(Get(parsed, "restaurants"), parsed) IN
    IF IsArray(restaurants) THEN restaurants ELSE JArr(<<>>)

\* the handler from the completion's answer to its next await or the end of its
\* try block (src/index.ts 100-103, 193-214, 307-344, 446-491)
AfterCompletion(r, o, e) ==
    IF o.kind = "reject" THEN Fail(r, "network")
    ELSE IF o.kind = "garbage" THEN Fail(r, "syntax")
    ELSE IF Nullish(o.doc) THEN Fail(r, "type")
    ELSE LET parsed == o.doc
             r1 == [r EXCEPT !.parsed = parsed, !.doc = parsed]
         IN  CASE r.tool = "search-city-food" ->
                    Write(r1, JObj([restaurants |-> restaurantsOf(parsed)]))
               [] r.tool = "get-menu-dishes" ->
                    LET dishes == Coalesce(Get(parsed, "dishes"), JArr(<<>>)) IN
                    IF "UNSPLASH_ACCESS_KEY" \in e
                    THEN IF IsArray(dishes) THEN StartBatch(r1, dishes.a, e)
                         ELSE Fail(r1, "type")
                    ELSE Write([r1 EXCEPT !.lookups =
                                   [k \in 1..Len(dishes.a) |-> NoLookup]],
                               JObj([dishes |-> dishes]))
               [] r.tool = "build-taste-itinerary" ->
                    LET rawStops == Coalesce(Get(parsed, "stops"), JArr(<<>>)) IN
                    IF IsArray(rawStops) THEN StartBatch(r1, rawStops.a, e)
                    ELSE Fail(r1, "type")
               [] OTHER ->
                    IF rawDaysOf(parsed).t \in {"arr", "str"} THEN RunDays(r1, 1, e)
                    ELSE Fail(r1, "type")

----------------------------------------------------------------------------
(* State *)

EmptyMap == [k \in {} |-> 0]

NoProbe == [op |-> "none", key |-> <<>>, value |-> JUndef, ttl |-> 0, at |-> 0]

Init ==
    /\ now = 0
    /\ cache = EmptyMap
    /\ writes = EmptyMap
    /\ env \in SUBSET Credentials
    /\ inv = [i \in Slots |-> IdleInv]
    /\ probe = NoProbe

\* no handler is between its entry and its return
Quiet == \A i \in Slots : inv[i].pc \in {"idle", "done"}

\* the environment of the process is changed between requests
SetEnv(c) ==
    /\ Quiet
    /\ \E i \in Slots : inv[i].pc = "idle"
    /\ env' = IF c \in env THEN env \ {c} ELSE env \cup {c}
    /\ UNCHANGED <<now, cache, writes, inv, probe>>

\* the end of a synchronous stretch of handler i that leaves it as r: it awaits the
\* next call, or its catch block returns the error, or it calls setCache and
\* returns the widget
Conclude(i, r) ==
    CASE r.pc = "fail" ->
           /\ inv' = [inv EXCEPT ![i] =
                         Done(r, ErrorResult(FailText(r.tool, r.args, r.cause)))]
           /\ UNCHANGED <<cache, writes>>
      [] r.pc = "write" ->
           /\ cache' = setCache(cache, r.key, r.payload, DefaultTTL, now)
           /\ writes' = RecordWrite(writes, r.key, r.payload, DefaultTTL, now, i)
           /\ inv' = [inv EXCEPT ![i] =
                         Done([r EXCEPT !.wrote = TRUE], Finish(r.tool, r.args, r.payload))]
      [] OTHER ->
           /\ inv' = [inv EXCEPT ![i] = r]
           /\ UNCHANGED <<cache, writes>>

\* the last setCache on key k so far
LastWrite(k) ==
    IF k \in DOMAIN writes THEN [by |-> writes[k].by, age |-> now - writes[k].at]
    ELSE [by |-> 0, age |-> 0]

\* a tool is called: slots are taken in order
Invoke(i, tool, a) ==
    /\ inv[i].pc = "idle"
    /\ \A j \in Slots : j < i => inv[j].pc # "idle"
    /\ \A j \in Slots : inv[j].tool \in {"", tool}
    /\ Conclude(i, [Begin(tool, a, cache, env, now) EXCEPT
                        !.after = {j \in Slots : inv[j].pc = "done"},
                        !.seen = LastWrite(cacheKey(tool, a))])
    /\ UNCHANGED <<now, env, probe>>

\* the page fetch of get-menu-dishes settles (src/index.ts 153-156): rejected, the
\* inner catch falls through to the search; resolved, the handler awaits res.text()
FetchReturn(i, o) ==
    /\ inv[i].pc = "fetch"
    /\ Conclude(i, IF o = "reject"
                   THEN AfterContext([inv[i] EXCEPT !.obs.fetch = "reject"], env)
                   ELSE [inv[i] EXCEPT !.pc = "text", !.res = o])
    /\ UNCHANGED <<now, env, probe>>

\* res.text() of the page settles (src/index.ts 157-165): the text becomes the context
TextReturn(i, o) ==
    /\ inv[i].pc = "text"
    /\ Conclude(i, AfterContext([inv[i] EXCEPT
                                    !.res = "none",
                                    !.menuContext = IF o = "reject" THEN "" ELSE inv[i].res,
                                    !.obs.fetch = IF o = "reject" THEN "reject"
                                                  ELSE inv[i].res], env))
    /\ UNCHANGED <<now, env, probe>>

\* search k of handler i settles (src/index.ts 72-83, 170-175, 264-272, 402-409)
SearchReturn(i, k, o) ==
    /\ inv[i].pc = "search"
    /\ k \in inv[i].waiting
    /\ LET r == [inv[i] EXCEPT !.waiting = @ \ {k},
                                !.obs.rejected = IF o = "reject" THEN @ + 1 ELSE @,
                                !.obs.answered = IF o = "reject" THEN @ ELSE @ + 1] IN
       Conclude(i, IF o = "reject" THEN Fail(r, "network")
                   ELSE IF r.waiting # {} THEN r
                   ELSE IssueCompletion(
                          IF r.tool = "get-menu-dishes"
                          THEN [r EXCEPT !.menuContext = "search"] ELSE r))
    /\ UNCHANGED <<now, env, probe>>

\* the completion call of handler i settles
CompletionReturn(i, o) ==
    /\ inv[i].pc = "completion"
    /\ Conclude(i, AfterCompletion([inv[i] EXCEPT !.obs.completion = o.kind], o, env))
    /\ UNCHANGED <<now, env, probe>>

\* the fetch of the image lookup of record k of the current batch settles
\* (src/index.ts 201-204, 318-321, 461-464): rejected, the lookup is over; resolved,
\* its callback awaits imgRes.json()
ImageReturn(i, k, o) ==
    /\ inv[i].pc = "images"
    /\ k \in inv[i].waiting
    /\ inv[i].got[k] = Pending
    /\ LET r == IF o = "reject"
                THEN [inv[i] EXCEPT !.waiting = @ \ {k},
                                    !.got[k] = Answered([kind |-> "reject", body |-> JUndef])]
                ELSE [inv[i] EXCEPT !.got[k] = Received] IN
       Conclude(i, IF r.waiting # {} THEN r ELSE EndBatch(r, env))
    /\ UNCHANGED <<now, env, probe>>

\* imgRes.json() of the image lookup of record k settles (src/index.ts 205-209,
\* 322-326, 465-469): the lookup is over
ImageJsonReturn(i, k, o) ==
    /\ inv[i].pc = "images"
    /\ k \in inv[i].waiting
    /\ inv[i].got[k] = Received
    /\ LET r == [inv[i] EXCEPT !.waiting = @ \ {k}, !.got[k] = Answered(o)] IN
       Conclude(i, IF r.waiting # {} THEN r ELSE EndBatch(r, env))
    /\ UNCHANGED <<now, env, probe>>

\* the argument tuples and the completion outcomes of each tool, as tables
InputsOf == [tool \in Tools |-> ToolInputs(tool)]
OutcomesOf == [tool \in Tools |-> CompletionOutcomes(tool)]

Next ==
    \/ Tick
    \/ \E c \in Credentials : SetEnv(c)
    \/ \E i \in Slots, tool \in Tools : \E a \in InputsOf[tool] : Invoke(i, tool, a)
    \/ \E i \in Slots, o \in FetchOutcomes : FetchReturn(i, o)
    \/ \E i \in Slots, o \in TextOutcomes : TextReturn(i, o)
    \/ \E i \in Slots, k \in {1, 2}, o \in SearchOutcomes : SearchReturn(i, k, o)
    \/ \E i \in Slots, tool \in Tools : \E o \in OutcomesOf[tool] :
          inv[i].tool = tool /\ CompletionReturn(i, o)
    \/ \E i \in Slots, k \in 1..2, o \in ImageFetchOutcomes : ImageReturn(i, k, o)
    \/ \E i \in Slots, k \in 1..2, o \in ImageOutcomes : ImageJsonReturn(i, k, o)

Spec == Init /\ [][Next]_vars

----------------------------------------------------------------------------
(* The cache on its own: setCache and getCache called directly *)

ProbeKeys == {<<"a">>, <<"b">>}
ProbeValues == {Str1("v"), Str1("w")}
ProbeTtls == {0, 1, DefaultTTL - 1, DefaultTTL}

\* setCache(k, v, ttl)
CacheSet(k, v, ttl) ==
    /\ cache' = setCache(cache, k, v, ttl, now)
    /\ writes' = RecordWrite(writes, k, v, ttl, now, 0)
    /\ probe' = [op |-> "set", key |-> k, value |-> v, ttl |-> ttl, at |-> now]
    /\ UNCHANGED <<now, env, inv>>

\* getCache(k): the probe keeps what it returned
CacheGet(k) ==
    /\ probe' = [op |-> "get", key |-> k, value |-> getCache(cache, k, now),
                 ttl |-> 0, at |-> now]
    /\ UNCHANGED <<now, cache, writes, env, inv>>

InitCache ==
    /\ now = 0
    /\ cache = EmptyMap
    /\ writes = EmptyMap
    /\ env = Credentials
    /\ inv = [i \in Slots |-> IdleInv]
    /\ probe = NoProbe

NextCache ==
    \/ Tick
    \/ \E k \in ProbeKeys, v \in ProbeValues, ttl \in ProbeTtls : CacheSet(k, v, ttl)
    \/ \E k \in ProbeKeys : CacheGet(k)

SpecCache == InitCache /\ [][NextCache]_vars

----------------------------------------------------------------------------
(* Properties of the cache, checked under SpecCache *)

\* C1: a getCache(k) made strictly before t + ttl, where setCache(k, v, ttl) at time t
\* is the last set on k, returns v; made once t + ttl has been reached it returns null.
C1_CacheTtl ==
    (probe.op = "get" /\ probe.key \in DOMAIN writes) =>
        LET w == writes[probe.key] IN
        /\ probe.at < w.at + w.ttl => probe.value = w.data
        /\ probe.at >= w.at + w.ttl => probe.value = JNull

\* a lookup after time has passed since the set, still inside the ttl, got the value
C1_Witness ==
    /\ probe.op = "get"
    /\ probe.key \in DOMAIN writes
    /\ writes[probe.key].at < probe.at
    /\ probe.at < writes[probe.key].at + writes[probe.key].ttl
    /\ probe.value = writes[probe.key].data

\* C2: getCache never returns the data of an entry whose expiry time is <= now; at
\* now = expires it returns null, and an entry set with ttl 0 is never returned.
C2_NeverExpired ==
    probe.op = "get" =>
        /\ ~Nullish(probe.value) =>
              probe.key \in DOMAIN cache /\ cache[probe.key].expires > probe.at
        /\ (probe.key \in DOMAIN writes /\ writes[probe.key].ttl = 0) =>
              probe.value = JNull

\* a lookup made exactly at the expiry time of an entry with a positive ttl got null
C2_Witness ==
    /\ probe.op = "get"
    /\ probe.key \in DOMAIN cache
    /\ cache[probe.key].expires = probe.at
    /\ writes[probe.key].ttl > 0
    /\ probe.value = JNull

----------------------------------------------------------------------------
(* Vocabulary of the properties of the handlers, checked under Spec *)

DoneSlots == {i \in Slots : inv[i].pc = "done"}

\* the inputs of an invocation after normalisation: tool, lower-cased city,
\* restaurant name and preferences, day count
Norm(r) ==
    <<r.tool, toLowerCase(r.args.city), toLowerCase(r.args.restaurantName),
      toLowerCase(OrEmpty(r.args.preferences)), dayCount(r.args)>>

\* the inputs a result echoes as given
Echo(r) == <<r.args.city, r.args.restaurantName, OrEmpty(r.args.preferences)>>

\* the structured records of a result, without the echoed inputs
RecordsOf(r) ==
    LET p == r.result.props IN
    CASE r.tool = "search-city-food" -> <<Get(p, "restaurants")>>
      [] r.tool = "get-menu-dishes"  -> <<Get(p, "dishes")>>
      [] r.tool = "build-taste-itinerary" ->
           <<Get(p, "stops"), Get(p, "centerLat"), Get(p, "centerLng")>>
      [] OTHER ->
           <<Get(p, "stops"), Get(p, "days"), Get(p, "centerLat"), Get(p, "centerLng")>>

\* invocation j was entered after i had returned, with the same normalised inputs
Follows(i, j) ==
    /\ inv[j].pc = "done"
    /\ i \in inv[j].after
    /\ Norm(inv[i]) = Norm(inv[j])

\* j was entered with its credentials in place, while the entry i had written, and
\* nobody had overwritten, was younger than the TTL
FindsEntryOf(i, j) ==
    /\ inv[i].wrote
    /\ inv[j].seen.by = i
    /\ inv[j].seen.age < DefaultTTL
    /\ MissingAt(inv[j].tool, inv[j].cfg) = {}

\* two characters are the same letter
SameLetter(c, d) ==
    c = d \/ \E k \in 1..Len(UpperChars) : {c, d} = {UpperChars[k], LowerChars[k]}

\* two strings differ at most in letter case
CaseVariant(x, y) ==
    Len(x) = Len(y) /\ \A k \in 1..Len(x) : SameLetter(x[k], y[k])

CaseVariantArgs(a, b) ==
    /\ CaseVariant(a.city, b.city)
    /\ CaseVariant(a.restaurantName, b.restaurantName)
    /\ CaseVariant(OrEmpty(a.preferences), OrEmpty(b.preferences))
    /\ dayCount(a) = dayCount(b)

----------------------------------------------------------------------------
(* C3 *)

\* C3 as claimed: of two consecutive invocations with the same normalised inputs,
\* the second within the TTL window of the first, the second issues no external
\* call and its output equals the first's (here with every credential configured
\* throughout).
C3_AsClaimed ==
    \A i, j \in Slots :
        (/\ Follows(i, j) /\ now < DefaultTTL
         /\ inv[i].cfg = Credentials /\ inv[j].cfg = Credentials) =>
            inv[j].calls = ZeroCalls /\ inv[j].result = inv[i].result

\* C3 amended: when the first invocation missed and wrote the cache, and the second
\* is entered with its credentials configured while that entry is the last written
\* and younger than the TTL, the second issues no external call, writes nothing and
\* returns the records of the first; its whole output equals the first's when the
\* inputs are spelled alike.
C3_SecondServedFromCache ==
    \A i, j \in Slots :
        (Follows(i, j) /\ FindsEntryOf(i, j)) =>
            /\ inv[j].hit
            /\ inv[j].calls = ZeroCalls
            /\ ~inv[j].wrote
            /\ inv[j].result.kind = inv[i].result.kind
            /\ RecordsOf(inv[j]) = RecordsOf(inv[i])
            /\ Echo(inv[j]) = Echo(inv[i]) => inv[j].result = inv[i].result

\* a second invocation was served the widget of the first, some time after it
C3_Witness ==
    \E i, j \in Slots :
        /\ Follows(i, j) /\ FindsEntryOf(i, j)
        /\ inv[j].seen.age > 0
        /\ inv[j].result.kind = "widget"
        /\ inv[i].calls.completion = 1
        /\ Len(RecordsOf(inv[j])[1].a) > 0

----------------------------------------------------------------------------
(* C4 *)

\* C4: cache keys ignore letter case in every pipeline: invocations of one tool whose
\* city, restaurant name and preferences differ only in case derive the same key
\* (Tokyo and tokyo give restaurants:tokyo, Lisbon gives restaurants:lisbon), and the
\* later one hits the entry the earlier one wrote.
C4_KeysIgnoreCase ==
    /\ restaurantsKey(Args(Tokyo, <<>>, JUndef, JUndef, JUndef))
          = <<"r","e","s","t","a","u","r","a","n","t","s",":","t","o","k","y","o">>
    /\ restaurantsKey(Args(tokyo, <<>>, JUndef, JUndef, JUndef))
          = <<"r","e","s","t","a","u","r","a","n","t","s",":","t","o","k","y","o">>
    /\ restaurantsKey(Args(Lisbon, <<>>, JUndef, JUndef, JUndef))
          = <<"r","e","s","t","a","u","r","a","n","t","s",":","l","i","s","b","o","n">>
    /\ \A i, j \in Slots :
          (/\ inv[i].tool # "" /\ inv[i].tool = inv[j].tool
           /\ CaseVariantArgs(inv[i].args, inv[j].args)) =>
              inv[i].key = inv[j].key
    /\ \A i, j \in Slots :
          (/\ inv[j].pc = "done" /\ i \in inv[j].after /\ inv[i].tool = inv[j].tool
           /\ CaseVariantArgs(inv[i].args, inv[j].args)
           /\ FindsEntryOf(i, j)) =>
              inv[j].hit

\* an invocation hit the entry written by one whose inputs were spelled differently
C4_Witness ==
    \E i, j \in Slots :
        /\ inv[j].pc = "done" /\ i \in inv[j].after /\ inv[i].tool = inv[j].tool
        /\ CaseVariantArgs(inv[i].args, inv[j].args)
        /\ inv[i].args.city # inv[j].args.city
        /\ inv[i].wrote
        /\ inv[j].hit

----------------------------------------------------------------------------
(* Vocabulary of the properties about extraction and enrichment *)

Enriching == {"get-menu-dishes", "build-taste-itinerary", "explore-city-food-map"}

\* the array field a pipeline expects in the extraction document
ArrayField(tool) ==
    CASE tool = "search-city-food"      -> "restaurants"
      [] tool = "get-menu-dishes"       -> "dishes"
      [] tool = "build-taste-itinerary" -> "stops"
      [] OTHER                          -> "days"

\* the image field of a pipeline's records and the field that names a record
ImageField(tool) == IF tool = "get-menu-dishes" THEN "imageUrl" ELSE "dishImageUrl"
NameField(tool) == IF tool = "build-taste-itinerary" THEN "restaurantName" ELSE "name"

RECURSIVE ConcatStops(_)
\* the stops of a sequence of days, day after day
ConcatStops(ds) ==
    IF Len(ds) = 0 THEN <<>> ELSE Get(ds[1], "stops").a \o ConcatStops(Tail(ds))

\* the extraction document is an object holding its array, of objects (for the map:
\* of days that are objects holding arrays of objects)
WellShaped(tool, doc) ==
    /\ doc.t = "obj"
    /\ IsArray(Get(doc, ArrayField(tool)))
    /\ \A k \in Idx(Get(doc, ArrayField(tool))) :
          LET x == Get(doc, ArrayField(tool)).a[k] IN
          /\ x.t = "obj"
          /\ tool = "explore-city-food-map" =>
                /\ IsArray(Get(x, "stops"))
                /\ \A m \in Idx(Get(x, "stops")) : Get(x, "stops").a[m].t = "obj"

\* the records of a well-shaped extraction document, in extracted order
Extracted(tool, doc) ==
    IF tool = "explore-city-food-map" THEN ConcatStops(Get(doc, "days").a)
    ELSE Get(doc, ArrayField(tool)).a

\* the records a widget result carries, in order
Returned(r) ==
    IF r.tool = "explore-city-food-map" THEN Get(r.result.props, "stops").a
    ELSE Get(r.result.props, ArrayField(r.tool)).a

\* the URL in the body of an image lookup's answer
SmallUrl(body) == body.o["results"].a[1].o["urls"].o["small"]

----------------------------------------------------------------------------
(* C5 *)

\* C5: in the pipelines that enrich, when every one of the N extracted records has an
\* image query, the lookup of exactly one record fails and the others answer with a
\* URL, the invocation returns N records in extracted order, the failed one with the
\* empty string as image and every other with the URL of its own lookup.
C5_EnrichmentIsolation ==
    \A i \in DoneSlots :
        LET r   == inv[i]
            raw == Extracted(r.tool, r.doc)
        IN  (/\ r.tool \in Enriching
             /\ WellShaped(r.tool, r.doc)
             /\ \A k \in 1..Len(raw) : Truthy(Get(raw[k], "imageQuery"))
             /\ Len(r.lookups) = Len(raw)
             /\ \A k \in 1..Len(raw) : r.lookups[k].outcome \in {"reject", "json"}
             /\ Cardinality({k \in 1..Len(raw) : r.lookups[k].outcome = "reject"}) = 1
             /\ \A k \in 1..Len(raw) :
                   r.lookups[k].outcome = "json" => IsArray(Get(r.lookups[k].body, "results"))
                                                    /\ Len(Get(r.lookups[k].body, "results").a) > 0)
            => /\ r.result.kind = "widget"
               /\ Len(Returned(r)) = Len(raw)
               /\ \A k \in 1..Len(raw) :
                     /\ Get(Returned(r)[k], NameField(r.tool)) = Get(raw[k], NameField(r.tool))
                     /\ Get(Returned(r)[k], ImageField(r.tool)) =
                           IF r.lookups[k].outcome = "reject" THEN JStr(<<>>)
                           ELSE SmallUrl(r.lookups[k].body)

\* the map pipeline returned three stops over two days, one of them without image
\* because its lookup failed, the others with their URLs
C5_Witness ==
    \E i \in DoneSlots :
        /\ inv[i].tool = "explore-city-food-map"
        /\ inv[i].result.kind = "widget"
        /\ Len(inv[i].lookups) = 3
        /\ Len(Returned(inv[i])) = 3
        /\ inv[i].lookups[2].outcome = "reject"
        /\ inv[i].lookups[1].outcome = "json" /\ inv[i].lookups[3].outcome = "json"
        /\ Get(Returned(inv[i])[2], "dishImageUrl") = JStr(<<>>)
        /\ Get(Returned(inv[i])[3], "dishImageUrl") = JStr(ImgA)

----------------------------------------------------------------------------
(* C6 *)

\* C6: an invocation that runs without UNSPLASH_ACCESS_KEY (and computes its payload)
\* issues no image lookup, and every record it returns has the empty string as image.
C6_NoCredentialEmptyImages ==
    \A i \in DoneSlots :
        (/\ inv[i].tool \in Enriching
         /\ "UNSPLASH_ACCESS_KEY" \notin inv[i].cfg
         /\ ~inv[i].hit) =>
            /\ inv[i].calls.image = 0
            /\ inv[i].result.kind = "widget" =>
                  \A k \in 1..Len(Returned(inv[i])) :
                      Get(Returned(inv[i])[k], ImageField(inv[i].tool)) = JStr(<<>>)

----------------------------------------------------------------------------
(* C7 *)

\* C7: every pipeline invoked without TAVILY_API_KEY returns the configuration
\* error that names it and makes no network call: no search, no completion, no page
\* fetch, no image lookup (stated with the completion credential configured, so that
\* the search credential is the only one a check can name).
C7_SearchCredentialRequired ==
    \A i \in DoneSlots :
        ("TAVILY_API_KEY" \notin inv[i].cfg /\ "OPENAI_API_KEY" \in inv[i].cfg) =>
            /\ inv[i].result = ErrorResult(NotConfigured("TAVILY_API_KEY"))
            /\ inv[i].calls = ZeroCalls

----------------------------------------------------------------------------
(* C8 *)

\* C8: a handler entered without one of the credentials it requires returns the
\* configuration error of the first one missing, makes no external call, reads no
\* cache entry and writes none, even when a fresh entry for its key exists.
C8_CredentialBeforeCache ==
    \A i \in DoneSlots :
        MissingAt(inv[i].tool, inv[i].cfg) # {} =>
            /\ inv[i].result =
                  ErrorResult(NotConfigured(FirstMissing(inv[i].tool, inv[i].cfg)))
            /\ inv[i].calls = ZeroCalls
            /\ ~inv[i].hit
            /\ ~inv[i].wrote

\* a handler returned the configuration error although another invocation had
\* written a still fresh entry under its key
C8_Witness ==
    \E i \in DoneSlots :
        /\ MissingAt(inv[i].tool, inv[i].cfg) # {}
        /\ inv[i].seen.by # 0
        /\ inv[i].seen.age < DefaultTTL
        /\ inv[i].key \in DOMAIN cache
        /\ cache[inv[i].key].expires > now
        /\ inv[i].result.kind = "error"

----------------------------------------------------------------------------
(* C9 *)

\* C9: search-city-food, given an extraction document that is an object whose
\* restaurants field is not an array, returns a widget with an empty list.
C9_RestaurantsCoerced ==
    \A i \in DoneSlots :
        (/\ inv[i].tool = "search-city-food"
         /\ inv[i].doc.t = "obj"
         /\ "restaurants" \in DOMAIN inv[i].doc.o
         /\ ~IsArray(Get(inv[i].doc, "restaurants"))) =>
            /\ inv[i].result.kind = "widget"
            /\ Get(inv[i].result.props, "restaurants") = JArr(<<>>)
            /\ inv[i].wrote

\* search-city-food returned an empty list for a document whose restaurants field
\* is a string
C9_Witness ==
    \E i \in DoneSlots :
        /\ inv[i].tool = "search-city-food"
        /\ Get(inv[i].doc, "restaurants").t = "str"
        /\ inv[i].result.kind = "widget"
        /\ Get(inv[i].result.props, "restaurants") = JArr(<<>>)

----------------------------------------------------------------------------
(* C10 *)

\* the expected array of the document is missing or not an array
FieldMismatch(tool, doc) == doc.t = "obj" /\ ~IsArray(Get(doc, ArrayField(tool)))

\* the days are an array of objects, one of which has stops missing or not an array
DayMismatch(tool, doc) ==
    /\ tool = "explore-city-food-map"
    /\ doc.t = "obj"
    /\ IsArray(Get(doc, "days"))
    /\ \A k \in Idx(Get(doc, "days")) : Get(doc, "days").a[k].t = "obj"
    /\ \E k \in Idx(Get(doc, "days")) : ~IsArray(Get(Get(doc, "days").a[k], "stops"))

\* C10: in get-menu-dishes, build-taste-itinerary and explore-city-food-map an
\* extraction document whose expected array (dishes, stops, days, a day's stops) is
\* missing or not an array is treated as holding an empty list: the handler returns
\* a widget, with no records when it is the top-level array.
C10_ArraysCoerced ==
    \A i \in DoneSlots :
        /\ (inv[i].tool \in Enriching /\ FieldMismatch(inv[i].tool, inv[i].doc)) =>
              /\ inv[i].result.kind = "widget"
              /\ Returned(inv[i]) = <<>>
        /\ DayMismatch(inv[i].tool, inv[i].doc) => inv[i].result.kind = "widget"

----------------------------------------------------------------------------
(* C11 *)

\* C11: in get-menu-dishes with TAVILY_API_KEY configured, a page fetch that rejects
\* (network failure, timeout) does not end the invocation: right after it exactly one
\* search is issued and awaited; once that search has resolved the completion is
\* issued with the search results as its context; and when the completion answers
\* with a well-shaped document the invocation returns its dishes in a widget.
C11_FetchFallback ==
    \A i \in Slots :
        LET r == inv[i] IN
        (/\ r.tool = "get-menu-dishes"
         /\ "TAVILY_API_KEY" \in r.cfg
         /\ r.obs.fetch = "reject") =>
            /\ r.calls.fetch = 1 /\ r.calls.search = 1
            /\ r.obs.answered + r.obs.rejected = 0 =>
                  r.pc = "search" /\ r.calls.completion = 0
            /\ r.obs.answered = 1 =>
                  r.calls.completion = 1 /\ r.obs.ctx = "search"
            /\ (r.pc = "done" /\ r.obs.completion = "json" /\ WellShaped(r.tool, r.doc)) =>
                  /\ r.result.kind = "widget"
                  /\ Len(Returned(r)) = Len(Extracted(r.tool, r.doc))
                  /\ \A k \in 1..Len(Returned(r)) :
                        Get(Returned(r)[k], "name") = Get(Extracted(r.tool, r.doc)[k], "name")

\* get-menu-dishes returned two dishes after its page fetch had failed and its
\* search had supplied the context
C11_Witness ==
    \E i \in DoneSlots :
        /\ inv[i].tool = "get-menu-dishes"
        /\ inv[i].obs.fetch = "reject"
        /\ inv[i].obs.ctx = "search"
        /\ inv[i].result.kind = "widget"
        /\ Len(Returned(inv[i])) = 2

----------------------------------------------------------------------------
(* C12 *)

\* C12: in get-menu-dishes (with TAVILY_API_KEY configured) every failed page fetch,
\* a rejected one as well as one answered with a non-200 status, leaves the page
\* content empty and is followed by the search; the completion is never issued
\* with the content of a non-200 response as its context.
C12_FailureFallsThrough ==
    \A i \in Slots :
        LET r == inv[i] IN
        (/\ r.tool = "get-menu-dishes"
         /\ "TAVILY_API_KEY" \in r.cfg
         /\ r.obs.fetch \in {"reject", "ok404"}) =>
            /\ r.calls.search = 1
            /\ r.obs.ctx # "ok404"

----------------------------------------------------------------------------
(* C13 *)

RECURSIVE StopCount(_)
\* the sum of the lengths of the stop lists of a sequence of days
StopCount(ds) ==
    IF Len(ds) = 0 THEN 0 ELSE Len(Get(ds[1], "stops").a) + StopCount(Tail(ds))

\* C13: in every widget explore-city-food-map returns, computed or served from the
\* cache, the flat stop list is the concatenation of the days' stop lists in day
\* order, and so has the sum of their lengths as its length.
C13_FlatIsConcatenation ==
    \A i \in DoneSlots :
        (inv[i].tool = "explore-city-food-map" /\ inv[i].result.kind = "widget") =>
            LET stops == Get(inv[i].result.props, "stops")
                days  == Get(inv[i].result.props, "days")
            IN  /\ IsArray(stops) /\ IsArray(days)
                /\ \A d \in Idx(days) : IsArray(Get(days.a[d], "stops"))
                /\ stops.a = ConcatStops(days.a)
                /\ Len(stops.a) = StopCount(days.a)

\* a map of two days with two stops and one stop was computed by one invocation and
\* served from the cache to the next, three stops in the flat list both times
C13_Witness ==
    \E i, j \in DoneSlots :
        /\ inv[i].tool = "explore-city-food-map"
        /\ inv[i].wrote /\ inv[j].hit
        /\ \A r \in {inv[i], inv[j]} :
              /\ r.result.kind = "widget"
              /\ Len(Get(r.result.props, "days").a) = 2
              /\ Len(Get(Get(r.result.props, "days").a[1], "stops").a) = 2
              /\ Len(Get(Get(r.result.props, "days").a[2], "stops").a) = 1
              /\ Len(Get(r.result.props, "stops").a) = 3

----------------------------------------------------------------------------
(* C14 *)

\* a search of the invocation rejected, or its completion call rejected, or the
\* completion's content was not JSON
UpstreamFailed(r) == r.obs.rejected > 0 \/ r.obs.completion \in {"reject", "garbage"}

\* C14: in every pipeline, as soon as a search rejects, the completion call rejects
\* or the completion's content does not parse, the invocation has ended: it returned
\* one error result carrying no structured payload, whose text is the handler's
\* failure message, it issued no further call, and it wrote no cache entry.
C14_UpstreamFailureAborts ==
    \A i \in Slots :
        LET r == inv[i] IN
        UpstreamFailed(r) =>
            /\ r.pc = "done"
            /\ r.result = ErrorResult(FailText(r.tool, r.args, r.cause))
            /\ r.result.props = JUndef
            /\ r.cause \in {"network", "syntax"}
            /\ r.obs.rejected > 0 => r.calls.completion = 0
            /\ r.calls.image = 0
            /\ ~r.wrote
            /\ r.key \in DOMAIN writes => writes[r.key].by # i

\* one invocation ended in an error because its search rejected, another one of the
\* same key because the completion's content was not JSON, and the cache holds no
\* entry for the key
C14_Witness ==
    \E i, j \in DoneSlots :
        /\ inv[i].key = inv[j].key
        /\ inv[i].obs.rejected = 1 /\ inv[i].result.kind = "error"
        /\ inv[j].obs.completion = "garbage" /\ inv[j].result.kind = "error"
        /\ inv[i].key \notin DOMAIN cache

----------------------------------------------------------------------------
(* C15 *)

\* a declared field `f: t` and a declared field `f?: t`
Req(t) == [type |-> t, optional |-> FALSE]
Opt(t) == [type |-> t, optional |-> TRUE]

\* the declared fields of a pipeline's record type with their declared types and
\* optional markers (Restaurant, Dish, ItineraryStop, MapStop: src/index.ts 509-552)
RecordType(tool) ==
    CASE tool = "search-city-food" ->
           [name |-> Req("str"), neighborhood |-> Req("str"), cuisineType |-> Req("str"),
            vibeTagline |-> Req("str"), whyLocal |-> Req("str"), url |-> Req("str")]
      [] tool = "get-menu-dishes" ->
           [name |-> Req("str"), description |-> Req("str"), mealType |-> Req("str"),
            imageQuery |-> Req("str"), imageUrl |-> Opt("str")]
      [] tool = "build-taste-itinerary" ->
           [timeSlot |-> Req("str"), timeRange |-> Req("str"),
            restaurantName |-> Req("str"), neighborhood |-> Req("str"),
            dish |-> Req("str"), dishDescription |-> Req("str"),
            culturalContext |-> Req("str"), walkingNote |-> Req("str"),
            lat |-> Req("num"), lng |-> Req("num"), dishImageUrl |-> Req("str")]
      [] OTHER ->
           [name |-> Req("str"), neighborhood |-> Req("str"), cuisineType |-> Req("str"),
            lat |-> Req("num"), lng |-> Req("num"), signatureDish |-> Req("str"),
            dishDescription |-> Req("str"), dishImageUrl |-> Req("str"),
            whyLocal |-> Req("str"), timeSlot |-> Opt("str"), timeRange |-> Opt("str")]

\* x is a value of the declared type of field d: of its type, or absent when the
\* field is optional
Conforms(x, d) == x.t = d.type \/ (d.optional /\ x.t = "undef")

\* the image field of a pipeline's record type, where it has one
HasImageField(tool) == ImageField(tool) \in DOMAIN RecordType(tool)

\* C15: every record of every widget a pipeline returns, whatever the extraction
\* document was, has each declared field of its record type holding a value of the
\* declared type (an optional field may be absent); in particular its image field,
\* optional or not, holds a string and is never undefined.
C15_RecordsComplete ==
    \A i \in DoneSlots :
        inv[i].result.kind = "widget" =>
            /\ IsArray(Get(inv[i].result.props, ArrayField(inv[i].tool)))
            /\ \A k \in 1..Len(Returned(inv[i])) :
                  /\ \A f \in DOMAIN RecordType(inv[i].tool) :
                        Conforms(Get(Returned(inv[i])[k], f), RecordType(inv[i].tool)[f])
                  /\ HasImageField(inv[i].tool) =>
                        Get(Returned(inv[i])[k], ImageField(inv[i].tool)).t = "str"

----------------------------------------------------------------------------
(* C16 *)

\* the context calls (page fetch, searches) handler r has issued and not yet seen settle
PendingContext(r) ==
    (r.calls.fetch - (IF r.obs.fetch = "none" THEN 0 ELSE 1))
        + (r.calls.search - (r.obs.answered + r.obs.rejected))

\* a lookup whose fetch or whose json() is awaited
Unsettled == {"pending", "received"}

\* the image lookups of r issued and not yet settled, over all its batches
PendingLookups(r) ==
    Cardinality({k \in 1..Len(r.lookups) : r.lookups[k].outcome \in Unsettled})
        + Cardinality({k \in 1..Len(r.got) : r.got[k].outcome \in Unsettled})

\* C16: in an invocation that misses the cache the steps are ordered.  Whenever the
\* completion call has been issued, every context call issued has settled (and none
\* rejected); whenever an image lookup has been issued, the completion has answered;
\* whenever the cache has been written, every image lookup issued has settled; and
\* whenever the handler has returned a result computed from a payload, it has
\* written the cache: nothing is issued out of turn and the write precedes the return.
C16_StepsOrdered ==
    \A i \in Slots :
        LET r == inv[i] IN
        ~r.hit =>
            /\ r.calls.completion > 0 =>
                  /\ PendingContext(r) = 0
                  /\ r.obs.rejected = 0
            /\ PendingContext(r) > 0 =>
                  r.calls.completion = 0 /\ r.calls.image = 0 /\ ~r.wrote
            /\ r.calls.image > 0 => r.obs.completion = "json"
            /\ r.pc = "completion" => r.calls.image = 0 /\ ~r.wrote
            /\ r.wrote =>
                  /\ PendingLookups(r) = 0
                  /\ r.obs.completion = "json"
                  /\ Cardinality({k \in 1..Len(r.lookups) : r.lookups[k].issued})
                        = r.calls.image
            /\ PendingLookups(r) > 0 => ~r.wrote /\ r.result = NoResult
            /\ r.result.kind \in {"widget", "throw"} => r.wrote
            /\ r.pc # "done" => r.result = NoResult /\ ~r.wrote

\* get-menu-dishes went through every step: page fetch, search, completion, two
\* image lookups, cache write, widget
C16_Witness ==
    \E i \in DoneSlots :
        /\ inv[i].tool = "get-menu-dishes"
        /\ ~inv[i].hit
        /\ inv[i].calls = [search |-> 1, fetch |-> 1, completion |-> 1, image |-> 2]
        /\ inv[i].wrote
        /\ inv[i].result.kind = "widget"
        /\ cache[inv[i].key].data = JObj([dishes |-> Get(inv[i].result.props, "dishes")])

----------------------------------------------------------------------------
(* C17 *)

\* at its entry handler r found no entry younger than the TTL under its key
NoFreshEntry(r) == r.seen.by = 0 \/ r.seen.age >= DefaultTTL

\* i and j ran concurrently: neither had returned when the other was entered
Overlap(i, j) ==
    /\ i # j
    /\ inv[i].pc # "idle" /\ inv[j].pc # "idle"
    /\ i \notin inv[j].after /\ j \notin inv[i].after

\* the searches a pipeline issues on a miss (get-menu-dishes: only in want of page text)
SearchesOf(r) ==
    CASE r.tool = "build-taste-itinerary" -> 2
      [] r.tool = "get-menu-dishes"       -> IF r.obs.ctx = "search" THEN 1 ELSE 0
      [] OTHER                            -> 1

\* C17: nothing keeps two invocations of one key from working side by side.  A
\* handler entered with its credentials configured while no fresh entry exists
\* misses and issues its first call, whether or not another invocation of the same
\* key is in flight; and of two concurrent invocations of the same key that both
\* found no fresh entry and both returned a widget, each issued its own searches
\* and its own completion call and each wrote the cache under that key.
C17_NoSingleFlight ==
    /\ \A i \in Slots :
          (/\ inv[i].pc # "idle"
           /\ MissingAt(inv[i].tool, inv[i].cfg) = {}
           /\ NoFreshEntry(inv[i])) =>
              /\ ~inv[i].hit
              /\ inv[i].calls.fetch + inv[i].calls.search + inv[i].calls.completion > 0
    /\ \A i, j \in DoneSlots :
          (/\ Overlap(i, j) /\ inv[i].key = inv[j].key
           /\ NoFreshEntry(inv[i]) /\ NoFreshEntry(inv[j])
           /\ inv[i].result.kind = "widget" /\ inv[j].result.kind = "widget") =>
              \A k \in {i, j} :
                  /\ inv[k].calls.search = SearchesOf(inv[k])
                  /\ inv[k].calls.completion = 1
                  /\ inv[k].wrote

\* two concurrent build-taste-itinerary invocations of one key both missed, both
\* issued two searches and a completion call, and both wrote the cache
C17_Witness ==
    \E i, j \in DoneSlots :
        /\ Overlap(i, j) /\ inv[i].key = inv[j].key
        /\ inv[i].tool = "build-taste-itinerary"
        /\ \A k \in {i, j} :
              /\ ~inv[k].hit /\ inv[k].wrote
              /\ inv[k].calls.search = 2 /\ inv[k].calls.completion = 1
              /\ inv[k].result.kind = "widget"
        /\ writes[inv[i].key].by = j

----------------------------------------------------------------------------
(* C18 *)

\* the lookups of earlier batches of r, all of which were issued and have settled
EarlierLookups(r) == {k \in 1..Len(r.lookups) : r.lookups[k].issued}

\* the records of the current batch for which the pipeline looks an image up:
\* every dish, and every stop with an image query
WantsLookup(r) ==
    {k \in 1..Len(r.raw) :
        /\ ~Nullish(r.raw[k])
        /\ r.tool # "get-menu-dishes" => Truthy(Get(r.raw[k], "imageQuery"))}

\* C18 as claimed: every image lookup of an invocation is issued before any of them
\* has completed: while a lookup is pending, no lookup of the invocation issued
\* earlier than it has settled, in the map pipeline across days as well.
C18_AsClaimed ==
    \A i \in Slots :
        inv[i].pc = "images" => EarlierLookups(inv[i]) = {}

\* C18 amended: the lookups of one batch (all dishes; all stops of the itinerary;
\* the stops of one day of the map) are issued together, before any of them is
\* awaited: while the handler awaits a batch, every record of the batch that wants
\* a lookup has its lookup issued.  get-menu-dishes and build-taste-itinerary have a
\* single batch.  explore-city-food-map has one batch per day, in day order, and
\* issues a day's lookups only when all lookups of the days before have settled.
C18_BatchParallel ==
    \A i \in Slots :
        LET r == inv[i] IN
        r.pc = "images" =>
            /\ {k \in 1..Len(r.got) : r.got[k].issued} = WantsLookup(r)
            /\ r.waiting = {k \in 1..Len(r.got) : r.got[k].outcome \in Unsettled}
            /\ r.waiting # {}
            /\ \A k \in 1..Len(r.lookups) : r.lookups[k].outcome \notin Unsettled
            /\ r.tool # "explore-city-food-map" => r.lookups = <<>>
            /\ r.tool = "explore-city-food-map" => Len(r.days) = r.dayIdx - 1

\* explore-city-food-map awaits the lookup of the second day's stop, issued after
\* both lookups of the first day had settled
C18_Witness ==
    \E i \in Slots :
        /\ inv[i].tool = "explore-city-food-map"
        /\ inv[i].pc = "images"
        /\ inv[i].dayIdx = 2
        /\ EarlierLookups(inv[i]) = {1, 2}
        /\ inv[i].got[1].outcome = "pending"

----------------------------------------------------------------------------
(* C19 *)

\* C19: build-taste-itinerary issues its two searches together: from its first
\* await on, two searches have been issued, and both are pending until the first of
\* them settles.  The completion call is issued only when both searches have
\* resolved; when a search rejects, the invocation ends at once with the handler's
\* error, without a completion call and without a cache write.
C19_SearchFanOut ==
    \A i \in Slots :
        LET r == inv[i] IN
        (r.tool = "build-taste-itinerary" /\ r.pc # "idle" /\ ~r.hit
           /\ MissingAt(r.tool, r.cfg) = {}) =>
            /\ r.calls.search = 2
            /\ r.obs.answered + r.obs.rejected = 0 =>
                  r.pc = "search" /\ r.waiting = {1, 2}
            /\ r.pc = "search" =>
                  /\ Cardinality(r.waiting) = 2 - r.obs.answered
                  /\ r.calls.completion = 0
            /\ r.calls.completion > 0 => r.obs.answered = 2 /\ r.obs.rejected = 0
            /\ r.obs.answered = 2 => r.calls.completion = 1
            /\ r.obs.rejected > 0 =>
                  /\ r.pc = "done"
                  /\ r.calls.completion = 0
                  /\ r.result = ErrorResult(FailText(r.tool, r.args, "network"))
                  /\ ~r.wrote

\* one build-taste-itinerary invocation issued its completion call after both
\* searches had resolved; another ended in an error when its second search to
\* settle rejected, without a completion call
C19_Witness ==
    \E i, j \in Slots :
        /\ inv[i].tool = "build-taste-itinerary"
        /\ inv[i].obs.answered = 2 /\ inv[i].calls.completion = 1
        /\ inv[j].tool = "build-taste-itinerary"
        /\ inv[j].obs.answered = 1 /\ inv[j].obs.rejected = 1
        /\ inv[j].calls.completion = 0
        /\ inv[j].result.kind = "error"

----------------------------------------------------------------------------
(* C20 *)

\* C20: a handler entry that hits the cache returns in that same step, with the
\* result assembled from the stored payload, without any external call and without
\* a cache write: the cache, and so the entry's value and expiry, are unchanged.  The
\* entry it is served was stored by a handler's setCache less than DefaultTTL (10
\* minutes) before, and its expiry is still that write's time plus DefaultTTL.
C20_HitIsReadOnly ==
    [][\A i \in Slots :
          (inv[i].pc = "idle" /\ inv'[i].hit) =>
              LET r == inv'[i] IN
              /\ cache' = cache
              /\ writes' = writes
              /\ r.pc = "done"
              /\ r.calls = ZeroCalls
              /\ ~r.wrote
              /\ r.key \in DOMAIN writes
              /\ writes[r.key].by \in Slots \ {i}
              /\ writes[r.key].ttl = DefaultTTL
              /\ now - writes[r.key].at < DefaultTTL
              /\ cache[r.key].expires = writes[r.key].at + DefaultTTL
              /\ r.result = Finish(r.tool, r.args, writes[r.key].data)]_vars

\* an invocation was served, one millisecond before the end of the TTL, the entry
\* another one had written, and the entry still expires ten minutes after that write
C20_Witness ==
    \E i, j \in DoneSlots :
        /\ inv[j].hit
        /\ inv[j].seen = [by |-> i, age |-> DefaultTTL - 1]
        /\ inv[j].result.kind = "widget"
        /\ inv[j].calls = ZeroCalls
        /\ writes[inv[j].key].by = i
        /\ cache[inv[j].key].expires = writes[inv[j].key].at + DefaultTTL

----------------------------------------------------------------------------
(* C21, checked under SpecCache *)

\* C21: no step removes a key from the cache, and only a setCache changes it: a
\* getCache, also one that finds its entry expired, leaves every entry as it is.
\* setCache(k, v, ttl) at time t leaves the other keys alone and makes the entry of k
\* hold v and expire at t + ttl, whatever it held before; a getCache(k) that follows
\* the last setCache on k by less than its ttl returns the value then set.
C21_NoEviction ==
    [][/\ DOMAIN cache \subseteq DOMAIN cache'
       /\ cache' # cache =>
             /\ probe'.op = "set"
             /\ probe'.at = now
             /\ probe'.key \in DOMAIN cache'
             /\ cache'[probe'.key] =
                   [data |-> probe'.value, expires |-> now + probe'.ttl]
             /\ \A k \in DOMAIN cache : k # probe'.key => cache'[k] = cache[k]
       /\ (probe' # probe /\ probe'.op = "get") =>
             /\ cache' = cache
             /\ (/\ probe'.key \in DOMAIN writes
                 /\ now < writes[probe'.key].at + writes[probe'.key].ttl) =>
                    probe'.value = writes[probe'.key].data]_vars

\* a getCache found its entry expired some time ago and returned null, and the
\* entry is still stored
C21_Witness ==
    /\ probe.op = "get"
    /\ probe.value = JNull
    /\ probe.key \in DOMAIN cache
    /\ cache[probe.key].expires < probe.at
    /\ cache[probe.key].data = writes[probe.key].data
    /\ Cardinality(DOMAIN cache) = 2

----------------------------------------------------------------------------
(* C22 *)

\* the extraction document holds a record list the pipeline can read: restaurants
\* (or the document itself) an array, dishes or stops an array or missing, days an
\* array of objects whose stops are arrays or missing
Readable(tool, doc) ==
    CASE tool = "search-city-food" ->
           IsArray(doc) \/ (doc.t = "obj" /\ IsArray(Get(doc, "restaurants")))
      [] tool = "explore-city-food-map" ->
           /\ doc.t = "obj"
           /\ IsArray(Get(doc, "days"))
           /\ \A d \in Idx(Get(doc, "days")) :
                 /\ Get(doc, "days").a[d].t = "obj"
                 /\ Get(Get(doc, "days").a[d], "stops").t \in {"arr", "undef"}
      [] OTHER ->
           doc.t = "obj" /\ Get(doc, ArrayField(tool)).t \in {"arr", "undef"}

RECURSIVE DayStopCount(_)
\* the number of stops the days of an extraction document list
DayStopCount(ds) ==
    IF Len(ds) = 0 THEN 0
    ELSE Len(Get(ds[1], "stops").a) + DayStopCount(Tail(ds))

\* the number of records a readable extraction document lists
ParsedCount(tool, doc) ==
    CASE tool = "search-city-food" ->
           IF IsArray(doc) THEN Len(doc.a) ELSE Len(Get(doc, "restaurants").a)
      [] tool = "explore-city-food-map" -> DayStopCount(Get(doc, "days").a)
      [] OTHER -> Len(Get(doc, ArrayField(tool)).a)

\* the search calls a pipeline issues when nothing is repeated
SearchLimit(tool) == IF tool = "build-taste-itinerary" THEN 2 ELSE 1

\* C22: an invocation issues the completion call at most once, at most one page
\* fetch and no more searches than its pipeline has (two for the itinerary, one
\* otherwise); once a search or the completion has failed it has returned, so it
\* repeats nothing; and a widget computed from a readable extraction document
\* carries exactly as many records as the document lists.
C22_NoRetryNoPadding ==
    \A i \in Slots :
        LET r == inv[i] IN
        /\ r.calls.completion <= 1
        /\ r.calls.fetch <= 1
        /\ r.calls.search <= SearchLimit(r.tool)
        /\ UpstreamFailed(r) =>
              /\ r.pc = "done" /\ r.result.kind = "error"
              /\ r.obs.rejected + r.obs.answered <= SearchLimit(r.tool)
              /\ r.obs.rejected <= 1
        /\ (/\ r.pc = "done" /\ ~r.hit /\ r.result.kind = "widget"
            /\ Readable(r.tool, r.doc)) =>
              Len(Returned(r)) = ParsedCount(r.tool, r.doc)

\* one invocation returned the single stop its extraction document listed, another
\* one returned an error after its completion call had rejected, having called once
C22_Witness ==
    \E i, j \in DoneSlots :
        /\ inv[i].tool = "build-taste-itinerary"
        /\ ~inv[i].hit /\ inv[i].result.kind = "widget"
        /\ ParsedCount(inv[i].tool, inv[i].doc) = 1
        /\ Len(Returned(inv[i])) = 1
        /\ inv[j].obs.completion = "reject"
        /\ inv[j].calls.completion = 1
        /\ inv[j].result.kind = "error"

----------------------------------------------------------------------------
(* C23 *)

\* C23: in the pipelines that enrich, run with the image credential configured, an
\* image lookup is issued for a record only if the record carries an imageQuery: a
\* record without one causes no image-service call and is returned with the empty
\* string as its image.
C23_LookupOnlyWithQuery ==
    \A i \in DoneSlots :
        LET r   == inv[i]
            raw == Extracted(r.tool, r.doc)
        IN  (/\ r.tool \in Enriching
             /\ "UNSPLASH_ACCESS_KEY" \in r.cfg
             /\ ~r.hit
             /\ r.result.kind = "widget"
             /\ WellShaped(r.tool, r.doc)
             /\ Len(r.lookups) = Len(raw)) =>
                /\ r.calls.image =
                      Cardinality({k \in 1..Len(raw) : Truthy(Get(raw[k], "imageQuery"))})
                /\ \A k \in 1..Len(raw) :
                      ~Truthy(Get(raw[k], "imageQuery")) =>
                          /\ ~r.lookups[k].issued
                          /\ Get(Returned(r)[k], ImageField(r.tool)) = JStr(<<>>)

----------------------------------------------------------------------------
(* C24 *)

\* C24: whatever the completion answers (text that is not JSON, JSON null, an object
\* of any shape, an array whose elements are not objects), a handler that has
\* returned has returned a widget or an error: no exception leaves the handler.
C24_NoEscapingException ==
    \A i \in DoneSlots :
        inv[i].obs.completion \in {"garbage", "json"} =>
            inv[i].result.kind \in {"widget", "error"}

----------------------------------------------------------------------------
(* The context handed to the extraction call: src/index.ts 81-83, 161-162,    *)
(* 174-175, 269-272, 407-409                                                  *)

\* a text of n characters
Text(n) == [k \in 1..n |-> "x"]

\* String.prototype.slice(0, n)
slice(s, n) == SubSeq(s, 1, IF Len(s) < n THEN Len(s) ELSE n)

\* the lengths of the texts a search result or a page may hold
TextSizes == {0, 1, 2500, 6000}
PageSizes == {0, 1, 3999, 4000, 4001, 6000}

\* one search result
SearchResult(n) == [title |-> <<"t">>, url |-> <<"u">>, content |-> Text(n)]

\* the result lists of a search
ResultLists ==
    UNION {[1..k -> {SearchResult(n) : n \in TextSizes}] : k \in 0..MaxResults}

\* `Title: ${r.title}\nURL: ${r.url}\nSnippet: ${r.content}` joined by "\n\n"
\* (search-city-food 81-83, explore-city-food-map 407-409)
snippets(results) ==
    Join([k \in 1..Len(results) |->
             <<"T","i","t","l","e",":"," ">> \o results[k].title
               \o <<"\n","U","R","L",":"," ">> \o results[k].url
               \o <<"\n","S","n","i","p","p","e","t",":"," ">> \o results[k].content],
         <<"\n","\n">>)

\* get-menu-dishes, context from the search (174-175)
menuSearchContext(results) ==
    <<"\n","\n","S","e","a","r","c","h"," ","r","e","s","u","l","t","s"," ","a","b","o","u","t"," ","t","h","i","s"," ","r","e","s","t","a","u","r","a","n","t",":","\n">>
      \o Join([k \in 1..Len(results) |-> results[k].content], <<"\n">>)

\* get-menu-dishes, context from the page text, whitespace already collapsed (161-162)
menuPageContext(text) ==
    <<"\n","\n","R","e","s","t","a","u","r","a","n","t"," ","w","e","b","s","i","t","e"," ","c","o","n","t","e","n","t",":","\n">>
      \o slice(text, 4000)

\* build-taste-itinerary: the contents of both searches joined, first 5000 characters
\* (269-272)
itineraryContext(food, culture) ==
    slice(Join([k \in 1..Len(food) |-> food[k].content]
                 \o [k \in 1..Len(culture) |-> culture[k].content],
               <<"\n","\n">>),
          5000)

----------------------------------------------------------------------------
(* The context builders on their own *)

\* the probe keeps which pipeline built a context from which source, and the context;
\* a handler builds its context once, from the results it was given
ContextProbe(tool, from, ctx) ==
    [op |-> "context", key |-> <<tool, from>>, value |-> JStr(ctx), ttl |-> 0, at |-> 0]

\* search-city-food and explore-city-food-map build their snippets
BuildSnippets(tool, results) ==
    /\ probe = NoProbe
    /\ tool \in {"search-city-food", "explore-city-food-map"}
    /\ probe' = ContextProbe(tool, "search", snippets(results))
    /\ UNCHANGED <<now, cache, writes, env, inv>>

\* get-menu-dishes builds its context from the page text
BuildMenuPage(n) ==
    /\ probe = NoProbe
    /\ probe' = ContextProbe("get-menu-dishes", "page", menuPageContext(Text(n)))
    /\ UNCHANGED <<now, cache, writes, env, inv>>

\* get-menu-dishes builds its context from its search
BuildMenuSearch(results) ==
    /\ probe = NoProbe
    /\ probe' = ContextProbe("get-menu-dishes", "search", menuSearchContext(results))
    /\ UNCHANGED <<now, cache, writes, env, inv>>

\* build-taste-itinerary builds its context from its two searches
BuildItinerary(food, culture) ==
    /\ probe = NoProbe
    /\ probe' = ContextProbe("build-taste-itinerary", "search",
                             itineraryContext(food, culture))
    /\ UNCHANGED <<now, cache, writes, env, inv>>

NextContext ==
    \/ \E tool \in Tools, results \in ResultLists : BuildSnippets(tool, results)
    \/ \E n \in PageSizes : BuildMenuPage(n)
    \/ \E results \in ResultLists : BuildMenuSearch(results)
    \/ \E food \in ResultLists, culture \in ResultLists : BuildItinerary(food, culture)

SpecContext == InitCache /\ [][NextContext]_vars

----------------------------------------------------------------------------
(* C25, checked under SpecContext *)

\* the largest number of characters the code cuts a context to
ContextLimit == 5000

\* C25: in every pipeline the context built for the extraction call is bounded in
\* length, however many and however long the search results or the page are: the
\* page text in it is at most 4000 characters, and a context built from search
\* results is at most ContextLimit characters.
C25_ContextBounded ==
    probe.op = "context" =>
        IF probe.key[2] = "page"
        THEN Len(probe.value.s) <= 4000 + Len(menuPageContext(<<>>))
        ELSE Len(probe.value.s) <= ContextLimit

----------------------------------------------------------------------------
(* Key derivation on its own: a handler's lookup and a handler's write *)

\* names and cities that hold the separator of the key templates
Tokyo_a == <<"t","o","k","y","o",":","a">>
a_b     == <<"a",":","b">>

\* the calls whose keys are derived: tool and arguments
KeyInputs ==
    {<<"search-city-food", Args(Tokyo, <<>>, JUndef, JUndef, JUndef)>>,
     <<"search-city-food", Args(tokyo, <<>>, JUndef, JUndef, JUndef)>>,
     <<"get-menu-dishes", Args(tokyo, a_b, JUndef, JUndef, JUndef)>>,
     <<"get-menu-dishes", Args(Tokyo_a, <<"b">>, JUndef, JUndef, JUndef)>>,
     <<"build-taste-itinerary", Args(Tokyo, <<>>, JUndef, JUndef, JUndef)>>,
     <<"build-taste-itinerary", Args(Tokyo, <<>>, JStr(Vegan), JUndef, JUndef)>>,
     <<"explore-city-food-map", Args(Tokyo, <<>>, JUndef, JUndef, JUndef)>>,
     <<"explore-city-food-map", Args(Tokyo, <<>>, JUndef, JUndef, JNum(2))>>}

\* a handler derives its key and writes its payload under it; the history keeps
\* the call the payload was computed for
KeyedWrite(call) ==
    LET key == cacheKey(call[1], call[2]) IN
    /\ cache' = setCache(cache, key, Str1("v"), DefaultTTL, now)
    /\ writes' = RecordWrite(writes, key, Str1("v"), DefaultTTL, now, call)
    /\ probe' = [op |-> "set", key |-> key, value |-> Str1("v"),
                 ttl |-> DefaultTTL, at |-> now]
    /\ UNCHANGED <<now, env, inv>>

\* a handler derives its key and looks it up; slot 1 keeps the call, the probe
\* what getCache returned
KeyedGet(call) ==
    LET key == cacheKey(call[1], call[2]) IN
    /\ inv' = [inv EXCEPT ![1] = [IdleInv EXCEPT !.tool = call[1], !.args = call[2],
                                                 !.key = key]]
    /\ probe' = [op |-> "get", key |-> key, value |-> getCache(cache, key, now),
                 ttl |-> 0, at |-> now]
    /\ UNCHANGED <<now, cache, writes, env>>

NextKeys ==
    \/ \E call \in KeyInputs : KeyedWrite(call)
    \/ \E call \in KeyInputs : KeyedGet(call)

SpecKeys == InitCache /\ [][NextKeys]_vars

----------------------------------------------------------------------------
(* C26, checked under SpecKeys *)

\* the call the entry under key k was written for
WrittenFor(k) == [tool |-> writes[k].by[1], args |-> writes[k].by[2]]

\* C26: key derivation is injective over the tool and the normalised parameters:
\* a lookup finds an entry only if the entry was written by a call of the same
\* tool with equal lower-cased city, restaurant name and preferences and an equal
\* day count, so that no call is served a payload cached for other parameters.
C26_KeysInjective ==
    (probe.op = "get" /\ probe.value # JNull) =>
        Norm(inv[1]) = Norm(WrittenFor(probe.key))

----------------------------------------------------------------------------
(* C27 *)

\* handler i calls setCache in this step
Writes(i) == ~inv[i].wrote /\ inv'[i].wrote

\* C27: an invocation writes the cache at most once, under its own derived key, after
\* its searches, its extraction and its image lookups have all ended without a
\* failure that aborts it.  Every step that changes the cache or its history is the
\* setCache of exactly one handler that had not written before and returns in that
\* step; the key is the one derived from its tool and arguments, the entries of the
\* other keys stay as they were, no call of the handler is pending and none failed
\* upstream.  A handler that has returned never steps again, and one that returned an
\* error or hit the cache has written nothing.
C27_WriteOnceOwnKey ==
    [][/\ (cache' # cache \/ writes' # writes) =>
              \E i \in Slots :
                  /\ Writes(i)
                  /\ \A j \in Slots \ {i} : inv'[j] = inv[j]
       /\ \A i \in Slots :
              Writes(i) =>
                  LET r == inv'[i]
                      k == cacheKey(r.tool, r.args) IN
                  /\ inv[i].pc # "done" /\ r.pc = "done"
                  /\ r.key = k
                  /\ k \in DOMAIN cache'
                  /\ writes'[k].by = i /\ writes'[k].at = now
                  /\ cache' = setCache(cache, k, writes'[k].data, DefaultTTL, now)
                  /\ \A o \in DOMAIN cache : o # k => cache'[o] = cache[o]
                  /\ DOMAIN cache' = DOMAIN cache \cup {k}
                  /\ ~r.hit
                  /\ r.result = Finish(r.tool, r.args, writes'[k].data)
                  /\ ~UpstreamFailed(r)
                  /\ r.obs.completion = "json" /\ r.calls.completion = 1
                  /\ r.obs.answered = r.calls.search
                  /\ PendingContext(r) = 0
                  /\ PendingLookups(r) = 0
       /\ \A i \in Slots :
              /\ inv[i].pc = "done" => inv'[i] = inv[i]
              /\ (inv'[i].pc = "done" /\ (inv'[i].hit \/ inv'[i].result.kind = "error"))
                     => ~inv'[i].wrote
      ]_vars

\* one invocation wrote its entry after its image lookups had settled, a later one
\* of another key wrote its own, and the entry of the first is as it was written
C27_Witness ==
    \E i, j \in DoneSlots :
        /\ i \in inv[j].after
        /\ inv[i].wrote /\ inv[j].wrote
        /\ inv[i].calls.image > 0
        /\ inv[i].key # inv[j].key
        /\ writes[inv[i].key].by = i /\ writes[inv[j].key].by = j
        /\ cache[inv[i].key] = [data |-> writes[inv[i].key].data,
                                expires |-> writes[inv[i].key].at + DefaultTTL]

----------------------------------------------------------------------------
(* C28 *)

\* i and j ran concurrently under one key, both missed and both called setCache
BothMissed(i, j) ==
    /\ Overlap(i, j)
    /\ inv[i].pc = "done" /\ inv[j].pc = "done"
    /\ inv[i].key = inv[j].key
    /\ ~inv[i].hit /\ ~inv[j].hit
    /\ inv[i].wrote /\ inv[j].wrote

\* the records of r's result are those of the document its own completion returned:
\* the case of the pipelines that return the extracted array as it is
OwnRecords(r) ==
    (/\ r.tool \in {"search-city-food", "get-menu-dishes"}
     /\ r.calls.image = 0
     /\ r.result.kind = "widget"
     /\ WellShaped(r.tool, r.doc)) =>
        Returned(r) = Extracted(r.tool, r.doc)

\* C28: when two concurrent invocations of one key both miss, each returns the
\* payload it computed itself, and once both have returned the cache holds the
\* payload of the one whose setCache came last: the entry's data is the data of the
\* last setCache on the key, whose caller returned exactly that payload, and every
\* invocation of the key entered from now on within DefaultTTL of that write, with
\* the cache as it is, hits and returns that payload.
C28_LastWriteWins ==
    \A i, j \in Slots :
        BothMissed(i, j) =>
            LET k == inv[i].key
                w == writes[k].by IN
            /\ OwnRecords(inv[i]) /\ OwnRecords(inv[j])
            /\ w \in {i, j}
            /\ cache[k].data = writes[k].data
            /\ cache[k].expires = writes[k].at + DefaultTTL
            /\ inv[w].result = Finish(inv[w].tool, inv[w].args, writes[k].data)
            /\ \A t \in TimePoints, a \in InputsOf[inv[i].tool] :
                  (/\ t >= now /\ t - writes[k].at < DefaultTTL
                   /\ cacheKey(inv[i].tool, a) = k) =>
                      LET h == Begin(inv[i].tool, a, cache, Credentials, t) IN
                      /\ h.hit /\ h.pc = "done"
                      /\ h.result = Finish(inv[i].tool, a, writes[k].data)

\* two concurrent get-menu-dishes invocations of one key both missed and returned
\* the different dishes their own completions had extracted; the cache holds what
\* the last writer returned, which is not what the other one returned
C28_Witness ==
    \E i, j \in Slots :
        /\ BothMissed(i, j)
        /\ inv[i].tool = "get-menu-dishes"
        /\ inv[i].result.kind = "widget" /\ inv[j].result.kind = "widget"
        /\ inv[i].calls.image = 0 /\ inv[j].calls.image = 0
        /\ WellShaped(inv[i].tool, inv[i].doc) /\ WellShaped(inv[j].tool, inv[j].doc)
        /\ writes[inv[i].key].by = j
        /\ Returned(inv[j]) = Get(cache[inv[i].key].data, "dishes").a
        /\ Returned(inv[i]) # Returned(inv[j])
        /\ Returned(inv[i]) = Extracted(inv[i].tool, inv[i].doc)
        /\ Returned(inv[j]) = Extracted(inv[j].tool, inv[j].doc)

----------------------------------------------------------------------------
(* C29 *)

\* an image lookup of r was rejected, its extracted records being objects
LookupFailed(r) ==
    /\ WellShaped(r.tool, r.doc)
    /\ \E k \in 1..Len(r.lookups) : r.lookups[k].outcome = "reject"

\* the extraction of r gave no record: the document is an object without the array
EmptyExtraction(r) ==
    /\ r.obs.completion = "json"
    /\ r.doc.t = "obj"
    /\ Nullish(Get(r.doc, ArrayField(r.tool)))

\* r missed the cache and has returned a result that is degraded
Degraded(r) ==
    /\ r.pc = "done" /\ ~r.hit
    /\ LookupFailed(r) \/ EmptyExtraction(r)

\* C29: a degraded result is cached like any other.  An invocation one of whose image
\* lookups was rejected, or whose extraction gave no record, has written the cache
\* and returned a widget (with the empty string as that record's image, or with no
\* record); and an identical invocation entered with its credentials configured
\* while that entry is the last written and younger than DefaultTTL hits the cache,
\* issues no call at all, writes nothing and returns the same result.
C29_DegradedIsCached ==
    /\ \A i \in Slots :
          Degraded(inv[i]) =>
              /\ inv[i].wrote
              /\ inv[i].result.kind = "widget"
              /\ cache[inv[i].key].data = writes[inv[i].key].data
              /\ EmptyExtraction(inv[i]) => Returned(inv[i]) = <<>>
              /\ LookupFailed(inv[i]) =>
                    \A k \in 1..Len(inv[i].lookups) :
                        inv[i].lookups[k].outcome = "reject" =>
                            Get(Returned(inv[i])[k], ImageField(inv[i].tool)) = JStr(<<>>)
    /\ \A i, j \in Slots :
          (/\ Degraded(inv[i])
           /\ Follows(i, j) /\ FindsEntryOf(i, j)
           /\ inv[j].args = inv[i].args) =>
              /\ inv[j].hit
              /\ inv[j].calls = ZeroCalls
              /\ ~inv[j].wrote
              /\ inv[j].result = inv[i].result

\* an invocation whose image lookup was rejected returned its record with an empty
\* image and cached it; the same call, made later within the TTL, was served that
\* payload without a call
C29_Witness ==
    \E i, j \in Slots :
        /\ Degraded(inv[i]) /\ LookupFailed(inv[i])
        /\ Follows(i, j) /\ FindsEntryOf(i, j)
        /\ inv[j].args = inv[i].args
        /\ inv[j].seen.age > 0
        /\ inv[j].hit /\ inv[j].calls = ZeroCalls
        /\ inv[j].result.kind = "widget"
        /\ \E k \in 1..Len(Returned(inv[j])) :
              /\ inv[i].lookups[k].outcome = "reject"
              /\ Get(Returned(inv[j])[k], ImageField(inv[j].tool)) = JStr(<<>>)

\* an invocation whose extraction gave no record cached the empty list, and the same
\* call, made later within the TTL, was served it without a call
DegradedEmptyServed ==
    \E i, j \in Slots :
        /\ Degraded(inv[i]) /\ EmptyExtraction(inv[i])
        /\ Follows(i, j) /\ FindsEntryOf(i, j)
        /\ inv[j].args = inv[i].args
        /\ inv[j].hit /\ inv[j].calls = ZeroCalls
        /\ Returned(inv[j]) = <<>>

----------------------------------------------------------------------------
(* C30 *)

\* j is a get-menu-dishes call entered after the call i of the same lower-cased city
\* and restaurant name had returned its dishes, with OPENAI_API_KEY configured,
\* while the entry i wrote is the last written and younger than DefaultTTL
MenuRepeated(i, j) ==
    /\ inv[i].tool = "get-menu-dishes" /\ inv[j].tool = "get-menu-dishes"
    /\ inv[i].result.kind = "widget"
    /\ toLowerCase(inv[i].args.city) = toLowerCase(inv[j].args.city)
    /\ toLowerCase(inv[i].args.restaurantName) = toLowerCase(inv[j].args.restaurantName)
    /\ Follows(i, j) /\ FindsEntryOf(i, j)

\* the get-menu-dishes call i has returned its dishes, and the entry it wrote is the
\* last written under its key
MenuCached(i) ==
    /\ inv[i].tool = "get-menu-dishes"
    /\ inv[i].pc = "done" /\ inv[i].wrote
    /\ inv[i].result.kind = "widget"
    /\ writes[inv[i].key].by = i

\* C30: the key of get-menu-dishes leaves the url argument out.  After a dish lookup
\* that returned its dishes, a dish lookup for the same lower-cased city and
\* restaurant name made within DefaultTTL derives the same key, hits the cache and
\* returns the cached dishes; it fetches no page and issues no search, no completion
\* and no image lookup, whether its url is absent, the same or another one.
\* This holds of the handler's entry applied to the cache as it is, for every url of
\* the model, and of every such call made.
C30_UrlNotInKey ==
    /\ \A i \in Slots, a \in InputsOf["get-menu-dishes"], t \in TimePoints :
          (/\ MenuCached(i)
           /\ toLowerCase(a.city) = toLowerCase(inv[i].args.city)
           /\ toLowerCase(a.restaurantName) = toLowerCase(inv[i].args.restaurantName)
           /\ t >= now /\ t - writes[inv[i].key].at < DefaultTTL) =>
              LET h == Begin("get-menu-dishes", a, cache, {"OPENAI_API_KEY"}, t) IN
              /\ h.key = inv[i].key
              /\ h.hit /\ h.pc = "done"
              /\ h.calls = ZeroCalls
              /\ h.result.kind = "widget"
              /\ Get(h.result.props, "dishes") = Get(inv[i].result.props, "dishes")
    /\ \A i, j \in Slots :
        MenuRepeated(i, j) =>
            /\ inv[j].key = inv[i].key
            /\ inv[j].hit
            /\ inv[j].calls = ZeroCalls
            /\ inv[j].obs.fetch = "none"
            /\ ~inv[j].wrote
            /\ inv[j].result.kind = "widget"
            /\ Get(inv[j].result.props, "dishes") = Get(inv[i].result.props, "dishes")
            /\ Get(inv[j].result.props, "dishes") = cache[inv[j].key].data.o["dishes"]

\* a dish lookup made without url was answered from a search; the next one, for the
\* same restaurant with a url that would have been fetched, was served its dishes
\* from the cache, the page not fetched
C30_Witness ==
    \E i, j \in Slots :
        /\ MenuRepeated(i, j)
        /\ Nullish(inv[i].args.url)
        /\ inv[i].calls.search = 1 /\ inv[i].calls.fetch = 0
        /\ inv[j].args.url = JStr(HttpUrl)
        /\ inv[j].hit /\ inv[j].calls.fetch = 0
        /\ Len(Get(inv[j].result.props, "dishes").a) > 0

\* the same with the urls exchanged: the first call fetched the page, the next
\* one came without url
MenuUrlDropped ==
    \E i, j \in Slots :
        /\ MenuRepeated(i, j)
        /\ inv[i].args.url = JStr(HttpUrl) /\ inv[i].calls.fetch = 1
        /\ Nullish(inv[j].args.url)
        /\ inv[j].hit

====
